---- MODULE Spec2Model ----
(***************************************************************************)
(* Model of the runcell container bootstrap coordinator:                   *)
(*   crate/celler/src/container/namespace.rs  (join_namespaces, the        *)
(*   namespace resolver, the ID-map writer)                                *)
(*   crate/cli/src/container_cmd.rs           (create, run, exec, delete,  *)
(*                                             list)                       *)
(* Option<T> values are modelled as sequences of length <= 1:              *)
(*   None = <<>>, Some(x) = <<x>>.                                         *)
(***************************************************************************)
EXTENDS Integers, Sequences, FiniteSets, TLC

VARIABLES
    spec,        \* the OCI spec handed to the coordinator (linux block, hooks)
    p,           \* the process descriptor: [init, pid]
    use_systemd_cgroup, \* join_namespaces parameter
    ppc,         \* position of the parent inside join_namespaces
    userns,      \* local `userns` of join_namespaces
    result,      \* outcome of join_namespaces: "running", "ok", "err", "panic"
    failedAt,    \* position at which join_namespaces returned Err / panicked
    pipe_w,      \* parent -> child pipe: sequence of messages in flight
    pipe_r,      \* child -> parent pipe: sequence of messages in flight
    pipesOpen,   \* the parent still holds both sync pipe ends
    cpc,         \* position of the child in the abstract child contract
    childAlive,  \* the child process exists
    plog,        \* history of the parent's observable operations, in order
    mapFiles,    \* [uid_map, gid_map]: payloads written to /proc/<pid>/*_map
    fds,         \* descriptors currently open in the parent (records)
    cg,          \* cgroup manager: [applied, set, destroyed]
    stateFile,   \* persisted state file of the container: <<>> or <<[pid]>>
    startResult, \* what the caller of the start sees: "pending", "ok", "err"
    listed,      \* output of the last list command: <<>> or <<rows>>
    probe,       \* result of the last resolver query (resolver specification)
    cli,         \* the CLI's world for one container id (lifecycle specification)
    logger,      \* the log forwarder task and the child's log pipe
    device,      \* a StorageDeviceGeneric and the file system entry at its path
    mount,       \* the last parse_mount_flags call: options and flags
    manager,     \* a StorageHandlerManager: registrations and last results
    status,      \* a ContainerStatus: current and previous status
    racers       \* delete commands running concurrently on one container id

vars == <<spec, p, use_systemd_cgroup, ppc, userns, result, failedAt, pipe_w,
          pipe_r, pipesOpen, cpc, childAlive, plog, mapFiles, fds, cg,
          stateFile, startResult, listed, probe, cli, logger, device, mount, manager, status, racers>>

inputVars == <<spec, p, use_systemd_cgroup>>

----------------------------------------------------------------------------
(* Bounds of the model *)

MaxNs == 2        \* namespace entries per list in the resolver specification
MaxPlan == 1      \* namespace entries per list in the handshake specification
MaxHooks == 1     \* prestart hooks configured

ChildPid == 7     \* pid of the forked child (any positive pid)

None == <<>>
Some(x) == <<x>>
IsNone(o) == Len(o) = 0
IsSome(o) == Len(o) = 1
Unwrap(o) == o[1]

\* all sequences over S of length <= n
RECURSIVE SeqsUpTo(_, _)
SeqsUpTo(S, n) ==
    IF n = 0 THEN {<<>>}
    ELSE LET shorter == SeqsUpTo(S, n - 1)
         IN shorter \cup {Append(s, x) : s \in {t \in shorter : Len(t) = n - 1}, x \in S}

----------------------------------------------------------------------------
(* Namespace entries: [typ, path] with path an Option<PathBuf> *)

NsTypes == {"User", "Pid", "Network"}
NsPaths == {None, Some(""), Some("/proc/9999/ns/x")}
NsEntries(T) == [typ : T, path : NsPaths]
\* the entries of the handshake specification: the handshake reads only
\* the user entries of the list
HsEntries == [typ : {"User"}, path : NsPaths] \cup {[typ |-> "Pid", path |-> None]}

\* oci_spec's Display of LinuxNamespaceType (what ns.typ().to_string() yields)
TypToString(t) ==
    CASE t = "User" -> "user"
      [] t = "Pid" -> "pid"
      [] t = "Network" -> "net"
      [] t = "Mount" -> "mnt"
      [] t = "Ipc" -> "ipc"
      [] t = "Uts" -> "uts"
      [] t = "Cgroup" -> "cgroup"

\* linux.namespaces().clone().unwrap_or_default()
NamespacesOrDefault(linux) ==
    IF IsNone(linux.namespaces) THEN <<>> ELSE Unwrap(linux.namespaces)

is_userns_enabled(linux) ==
    \E i \in 1..Len(NamespacesOrDefault(linux)) :
        /\ TypToString(NamespacesOrDefault(linux)[i].typ) = "user"
        /\ IsNone(NamespacesOrDefault(linux)[i].path)

----------------------------------------------------------------------------
(* ID mappings and the ID-map writer *)

IdMapNone == [container_id |-> 0, host_id |-> 1000, size |-> 0]
IdMapFull == [container_id |-> 0, host_id |-> 100000, size |-> 65536]
HsMappings == {None, Some(<<IdMapNone, IdMapFull>>)}

\* x.clone().unwrap_or_default() on an Option<Vec<_>>
VecOrDefault(o) == IF IsNone(o) THEN <<>> ELSE Unwrap(o)

\* format!("{} {} {}\n", m.container_id(), m.host_id(), m.size())
MapLine(m) ==
    ToString(m.container_id) \o " " \o ToString(m.host_id) \o " " \o ToString(m.size) \o "\n"

\* a seeded fault: the entries of size 0 are written too
RECURSIVE MappingDataAll(_)
MappingDataAll(maps) ==
    IF maps = <<>> THEN ""
    ELSE MapLine(Head(maps)) \o MappingDataAll(Tail(maps))

\* the payload: maps.iter().filter(size != 0).map(line).collect().join("")
RECURSIVE MappingData(_)
MappingData(maps) ==
    IF maps = <<>> THEN ""
    ELSE IF Head(maps).size # 0
         THEN MapLine(Head(maps)) \o MappingData(Tail(maps))
         ELSE MappingData(Tail(maps))

\* a seeded fault: the descriptor is not closed when the write fails
write_mappings_leak_on_err(file, maps, openOk, writeRes) ==
    LET data == MappingData(maps)
    IN  IF data = ""
        THEN [ok |-> TRUE, events |-> <<>>, written |-> None]
        ELSE IF ~openOk
        THEN [ok |-> FALSE, events |-> <<[op |-> "open_err", file |-> file]>>,
              written |-> None]
        ELSE IF writeRes = "err"
        THEN [ok |-> FALSE,
              events |-> <<[op |-> "open_wronly", file |-> file],
                           [op |-> "write_err", file |-> file]>>,
              written |-> None]
        ELSE [ok |-> TRUE,
              events |-> <<[op |-> "open_wronly", file |-> file],
                           [op |-> "write", file |-> file],
                           [op |-> "close", file |-> file]>>,
              written |-> Some(data)]

\* write_mappings(path, maps) under an environment in which the open succeeds
\* or not and the write ends "ok", "partial" (fewer bytes than the payload) or
\* "err".  Yields the Result, the operations made on the file, in order, and
\* what reached the file.
write_mappings(file, maps, openOk, writeRes) ==
    LET data == MappingData(maps)
    IN  IF data = ""
        THEN [ok |-> TRUE, events |-> <<>>, written |-> None]
        ELSE IF ~openOk
        THEN [ok |-> FALSE, events |-> <<[op |-> "open_err", file |-> file]>>,
              written |-> None]
        ELSE IF writeRes = "err"
        THEN [ok |-> FALSE,
              events |-> <<[op |-> "open_wronly", file |-> file],
                           [op |-> "write_err", file |-> file],
                           [op |-> "close", file |-> file]>>,
              written |-> None]
        ELSE [ok |-> TRUE,
              events |-> <<[op |-> "open_wronly", file |-> file],
                           [op |-> "write", file |-> file],
                           [op |-> "close", file |-> file]>>,
              written |-> IF writeRes = "partial"
                          THEN Some(SubSeq(data, 1, Len(data) - 1))
                          ELSE Some(data)]

----------------------------------------------------------------------------
(* The sync channel (crate::pipe::sync_with_async, modelled from the spec's *)
(* section 4.A): framed messages, one tag each.                            *)

SYNC_SUCCESS == "SUCCESS"
SYNC_DATA == "DATA"
SYNC_FAILED == "FAILURE"

Msg(tag, what) == [tag |-> tag, what |-> what]
Ev(op, file) == [op |-> op, file |-> file]

\* a seeded fault: the failure is dropped and Ok(()) is returned
ReturnErrAsOk(at) ==
    /\ result' = "ok"
    /\ failedAt' = at
    /\ ppc' = "returned"

\* join_namespaces returns Err from position `at`
ReturnErr(at) ==
    /\ result' = "err"
    /\ failedAt' = at
    /\ ppc' = "returned"

\* join_namespaces goes on to position `next`; reaching the end is Ok(())
Advance(next) ==
    /\ ppc' = next
    /\ result' = IF next = "returned" THEN "ok" ELSE result
    /\ UNCHANGED failedAt

\* write_async(pipe_w, tag, what).await? : the frame is queued, or the write
\* fails and join_namespaces returns the error
write_async(at, next, tag, what) ==
    \/ /\ pipe_w' = Append(pipe_w, Msg(tag, what))
       /\ plog' = Append(plog, Ev("send", what))
       /\ Advance(next)
    \/ /\ ReturnErr(at)
       /\ UNCHANGED <<pipe_w, plog>>

\* read_async(pipe_r).await? : blocks until a frame is there; SUCCESS or DATA
\* is Ok, FAILURE is Err; an I/O error or end of file is Err
read_async(at, next, what) ==
    \/ /\ Len(pipe_r) > 0
       /\ Head(pipe_r).tag # SYNC_FAILED
       /\ pipe_r' = Tail(pipe_r)
       /\ plog' = Append(plog, Ev("recv", what))
       /\ Advance(next)
    \/ /\ Len(pipe_r) > 0
       /\ Head(pipe_r).tag = SYNC_FAILED
       /\ pipe_r' = Tail(pipe_r)
       /\ ReturnErr(at)
       /\ UNCHANGED plog
    \/ /\ Len(pipe_r) = 0
       /\ ReturnErr(at)
       /\ UNCHANGED <<pipe_r, plog>>

----------------------------------------------------------------------------
(* join_namespaces: the parent side of the handshake, one action per step  *)

Linux == Unwrap(spec.linux)
Res == Linux.resources
Running(at) == result = "running" /\ ppc = at

hsRest == <<spec, p, use_systemd_cgroup, pipesOpen, cpc, childAlive, fds,
            stateFile, startResult, listed, probe, cli, logger, device, mount, manager, status, racers>>

\* let linux = spec.linux().as_ref().ok_or_else(..)?; let userns = ..
JoinBegin ==
    /\ Running("begin")
    /\ IF IsNone(spec.linux)
       THEN /\ ReturnErr("begin")
            /\ UNCHANGED userns
       ELSE /\ userns' = is_userns_enabled(Linux)
            /\ ppc' = "send_spec"
            /\ UNCHANGED <<result, failedAt>>
    /\ UNCHANGED <<hsRest, pipe_w, pipe_r, plog, mapFiles, cg>>

SendSpec ==
    /\ Running("send_spec")
    /\ write_async("send_spec", "wait_spec", SYNC_DATA, "spec")
    /\ UNCHANGED <<hsRest, userns, pipe_r, mapFiles, cg>>

WaitSpec ==
    /\ Running("wait_spec")
    /\ read_async("wait_spec", "send_process", "ack_spec")
    /\ UNCHANGED <<hsRest, userns, pipe_w, mapFiles, cg>>

SendProcess ==
    /\ Running("send_process")
    /\ write_async("send_process", "wait_process", SYNC_DATA, "process")
    /\ UNCHANGED <<hsRest, userns, pipe_r, mapFiles, cg>>

\* a seeded fault: message 3 is sent without waiting for the ack of message 2
WaitProcessNoRead ==
    /\ Running("wait_process")
    /\ ppc' = "send_state"
    /\ UNCHANGED <<hsRest, userns, result, failedAt, pipe_w, pipe_r, plog, mapFiles, cg>>

WaitProcess ==
    /\ Running("wait_process")
    /\ read_async("wait_process", "send_state", "ack_process")
    /\ UNCHANGED <<hsRest, userns, pipe_w, mapFiles, cg>>

SendState ==
    /\ Running("send_state")
    /\ write_async("send_state", "wait_state", SYNC_DATA, "state")
    /\ UNCHANGED <<hsRest, userns, pipe_r, mapFiles, cg>>

WaitState ==
    /\ Running("wait_state")
    /\ read_async("wait_state", "send_cm", "ack_state")
    /\ UNCHANGED <<hsRest, userns, pipe_w, mapFiles, cg>>

\* let cm_str = if use_systemd_cgroup { todo!(..) } else { .. }?; write_async
SendCm ==
    /\ Running("send_cm")
    /\ IF use_systemd_cgroup
       THEN /\ result' = "panic"
            /\ failedAt' = "send_cm"
            /\ ppc' = "returned"
            /\ UNCHANGED <<pipe_w, plog>>
       ELSE write_async("send_cm", "wait_userns", SYNC_DATA, "cm")
    /\ UNCHANGED <<hsRest, userns, pipe_r, mapFiles, cg>>

\* a seeded fault: a failed read of "user-namespace ready" does not stop the
\* coordinator, which goes on to the mapping step
WaitUsernsIgnoreErr ==
    /\ Running("wait_userns")
    /\ \/ /\ Len(pipe_r) > 0
          /\ pipe_r' = Tail(pipe_r)
          /\ IF Head(pipe_r).tag # SYNC_FAILED
             THEN /\ plog' = Append(plog, Ev("recv", "userns_ready"))
                  /\ UNCHANGED failedAt
             ELSE /\ failedAt' = "wait_userns"
                  /\ UNCHANGED plog
       \/ /\ Len(pipe_r) = 0
          /\ failedAt' = "wait_userns"
          /\ UNCHANGED <<pipe_r, plog>>
    /\ ppc' = "mappings"
    /\ UNCHANGED result
    /\ UNCHANGED <<hsRest, userns, pipe_w, mapFiles, cg>>

WaitUserns ==
    /\ Running("wait_userns")
    /\ read_async("wait_userns", "mappings", "userns_ready")
    /\ UNCHANGED <<hsRest, userns, pipe_w, mapFiles, cg>>

\* a seeded fault: the mappings are written whether or not userns is set
SetupMappingsAlways ==
    /\ Running("mappings")
    /\ \E uOpen \in BOOLEAN, uRes \in {"ok", "err"},
         gOpen \in BOOLEAN, gRes \in {"ok", "err"} :
         LET u == write_mappings("uid_map", VecOrDefault(Linux.uid_mappings), uOpen, uRes)
             g == write_mappings("gid_map", VecOrDefault(Linux.gid_mappings), gOpen, gRes)
         IN  /\ plog' = plog \o u.events \o g.events
             /\ mapFiles' = [uid_map |-> u.written, gid_map |-> g.written]
             /\ u.ok /\ g.ok
             /\ ppc' = "apply"
             /\ UNCHANGED <<result, failedAt>>
    /\ UNCHANGED <<hsRest, userns, pipe_w, pipe_r, cg>>

\* if userns { write_mappings(uid_map)?; write_mappings(gid_map)?; }
SetupMappings ==
    /\ Running("mappings")
    /\ IF ~userns
       THEN /\ ppc' = "apply"
            /\ UNCHANGED <<result, failedAt, plog, mapFiles>>
       ELSE \E uOpen \in BOOLEAN, uRes \in {"ok", "err"},
               gOpen \in BOOLEAN, gRes \in {"ok", "err"} :
               LET u == write_mappings("uid_map", VecOrDefault(Linux.uid_mappings), uOpen, uRes)
                   g == write_mappings("gid_map", VecOrDefault(Linux.gid_mappings), gOpen, gRes)
               IN  IF ~u.ok
                   THEN /\ plog' = plog \o u.events
                        /\ mapFiles' = [mapFiles EXCEPT !.uid_map = u.written]
                        /\ ReturnErr("mappings")
                   ELSE /\ plog' = plog \o u.events \o g.events
                        /\ mapFiles' = [uid_map |-> u.written, gid_map |-> g.written]
                        /\ IF g.ok
                           THEN /\ ppc' = "apply"
                                /\ UNCHANGED <<result, failedAt>>
                           ELSE ReturnErr("mappings")
    /\ UNCHANGED <<hsRest, userns, pipe_w, pipe_r, cg>>

\* a seeded fault: a failed apply is ignored and the coordinator goes on
ApplyCgroupsIgnoreErr ==
    /\ Running("apply")
    /\ IF IsSome(Res)
       THEN \E ok \in BOOLEAN :
               /\ plog' = Append(plog, Ev(IF ok THEN "apply" ELSE "apply_err", "cgroup"))
               /\ cg' = IF ok THEN [cg EXCEPT !.applied = @ \cup {p.pid}] ELSE cg
       ELSE UNCHANGED <<plog, cg>>
    /\ ppc' = "set"
    /\ UNCHANGED <<result, failedAt>>
    /\ UNCHANGED <<hsRest, userns, pipe_w, pipe_r, mapFiles>>

\* a seeded fault: apply is issued whether or not the spec has resources
ApplyCgroupsAlways ==
    /\ Running("apply")
    /\ plog' = Append(plog, Ev("apply", "cgroup"))
    /\ cg' = [cg EXCEPT !.applied = @ \cup {p.pid}]
    /\ ppc' = "set"
    /\ UNCHANGED <<result, failedAt>>
    /\ UNCHANGED <<hsRest, userns, pipe_w, pipe_r, mapFiles>>

\* if res.is_some() { cm.apply(p.pid)?; }
ApplyCgroups ==
    /\ Running("apply")
    /\ IF IsSome(Res)
       THEN \E ok \in BOOLEAN :
               IF ok
               THEN /\ plog' = Append(plog, Ev("apply", "cgroup"))
                    /\ cg' = [cg EXCEPT !.applied = @ \cup {p.pid}]
                    /\ ppc' = "set"
                    /\ UNCHANGED <<result, failedAt>>
               ELSE /\ plog' = Append(plog, Ev("apply_err", "cgroup"))
                    /\ ReturnErr("apply")
                    /\ UNCHANGED cg
       ELSE /\ ppc' = "set"
            /\ UNCHANGED <<result, failedAt, plog, cg>>
    /\ UNCHANGED <<hsRest, userns, pipe_w, pipe_r, mapFiles>>

\* if p.init && res.is_some() { cm.set(res.unwrap(), false)?; }
SetCgroups ==
    /\ Running("set")
    /\ IF p.init /\ IsSome(Res)
       THEN \E ok \in BOOLEAN :
               IF ok
               THEN /\ plog' = Append(plog, Ev("set", "cgroup"))
                    /\ cg' = [cg EXCEPT !.set = Some([update |-> FALSE])]
                    /\ ppc' = "send_continue"
                    /\ UNCHANGED <<result, failedAt>>
               ELSE /\ plog' = Append(plog, Ev("set_err", "cgroup"))
                    /\ ReturnErr("set")
                    /\ UNCHANGED cg
       ELSE /\ ppc' = "send_continue"
            /\ UNCHANGED <<result, failedAt, plog, cg>>
    /\ UNCHANGED <<hsRest, userns, pipe_w, pipe_r, mapFiles>>

\* a seeded fault: the hook exchange is entered for every process
SendContinueThenHooks ==
    /\ Running("send_continue")
    /\ write_async("send_continue", "wait_hooks", SYNC_SUCCESS, "continue")
    /\ UNCHANGED <<hsRest, userns, pipe_r, mapFiles, cg>>

\* write_async(pipe_w, SYNC_SUCCESS, "").await?
SendContinue ==
    /\ Running("send_continue")
    /\ write_async("send_continue", IF p.init THEN "wait_hooks" ELSE "wait_exec",
                   SYNC_SUCCESS, "continue")
    /\ UNCHANGED <<hsRest, userns, pipe_r, mapFiles, cg>>

\* if p.init { read_async(pipe_r).await?; ..
WaitHooks ==
    /\ Running("wait_hooks")
    /\ read_async("wait_hooks", "hooks", "hooks_ready")
    /\ UNCHANGED <<hsRest, userns, pipe_w, mapFiles, cg>>

\* the number of hooks in hooks.prestart().clone().unwrap_or_default()
Prestart == IF IsNone(spec.hooks) THEN 0 ELSE Unwrap(spec.hooks)

RECURSIVE HookEvents(_)
HookEvents(n) == IF n = 0 THEN <<>> ELSE Append(HookEvents(n - 1), Ev("hook", "prestart"))

\* a seeded fault: the result of execute_hooks is dropped
RunHooksIgnoreErr ==
    /\ Running("hooks")
    /\ \E failing \in 0..Prestart :
          plog' = IF failing = 0
                  THEN plog \o HookEvents(Prestart)
                  ELSE plog \o HookEvents(failing - 1) \o <<Ev("hook_err", "prestart")>>
    /\ ppc' = "send_hooks_done"
    /\ UNCHANGED <<result, failedAt>>
    /\ UNCHANGED <<hsRest, userns, pipe_w, pipe_r, mapFiles, cg>>

\* if let Some(hooks) = spec.hooks() { hook_states.execute_hooks(prestart, st)?; }
\* the hooks run in order; `failing` is the first hook that fails (0: none does)
RunHooks ==
    /\ Running("hooks")
    /\ \E failing \in 0..Prestart :
          IF failing = 0
          THEN /\ plog' = plog \o HookEvents(Prestart)
               /\ ppc' = "send_hooks_done"
               /\ UNCHANGED <<result, failedAt>>
          ELSE /\ plog' = plog \o HookEvents(failing - 1) \o <<Ev("hook_err", "prestart")>>
               /\ ReturnErr("hooks")
    /\ UNCHANGED <<hsRest, userns, pipe_w, pipe_r, mapFiles, cg>>

\* write_async(pipe_w, SYNC_SUCCESS, "").await?  (hooks complete)
SendHooksDone ==
    /\ Running("send_hooks_done")
    /\ write_async("send_hooks_done", "wait_exec", SYNC_SUCCESS, "hooks_done")
    /\ UNCHANGED <<hsRest, userns, pipe_r, mapFiles, cg>>

\* read_async(pipe_r).await?; Ok(())
WaitExec ==
    /\ Running("wait_exec")
    /\ read_async("wait_exec", "returned", "exec_ready")
    /\ UNCHANGED <<hsRest, userns, pipe_w, mapFiles, cg>>

----------------------------------------------------------------------------
(* The child, by the abstract child contract of the spec (section 4.F):    *)
(* read messages 1-4 in order, reply SUCCESS after each of 1-3, signal     *)
(* "user-namespace ready" after message 4, block on "continue", exchange   *)
(* the hook sub-handshake if init, signal "ready to exec" last, then exec. *)

childRest == <<spec, p, use_systemd_cgroup, ppc, userns, result, failedAt,
               pipesOpen, plog, mapFiles, fds, cg, stateFile, startResult,
               listed, probe, cli, logger, device, mount, manager, status, racers>>

ChildAt(at) == childAlive /\ cpc = at

\* the child reads message `what` and acknowledges it
ChildRecv(at, next, what) ==
    /\ ChildAt(at)
    /\ Len(pipe_w) > 0
    /\ Head(pipe_w) = Msg(SYNC_DATA, what)
    /\ pipe_w' = Tail(pipe_w)
    /\ pipe_r' = Append(pipe_r, Msg(SYNC_SUCCESS, ""))
    /\ cpc' = next
    /\ UNCHANGED <<childRest, childAlive>>

ChildRecvSpec == ChildRecv("rd_spec", "rd_process", "spec")
ChildRecvProcess == ChildRecv("rd_process", "rd_state", "process")
ChildRecvState == ChildRecv("rd_state", "rd_cm", "state")

\* message 4 is read and not acknowledged
ChildRecvCm ==
    /\ ChildAt("rd_cm")
    /\ Len(pipe_w) > 0
    /\ Head(pipe_w) = Msg(SYNC_DATA, "cm")
    /\ pipe_w' = Tail(pipe_w)
    /\ cpc' = "ns_setup"
    /\ UNCHANGED <<childRest, childAlive, pipe_r>>

\* unshare/setns per plan done: "user-namespace ready"
ChildUsernsReady ==
    /\ ChildAt("ns_setup")
    /\ pipe_r' = Append(pipe_r, Msg(SYNC_SUCCESS, ""))
    /\ cpc' = "wait_continue"
    /\ UNCHANGED <<childRest, childAlive, pipe_w>>

\* the child passes the continue point
ChildContinue ==
    /\ ChildAt("wait_continue")
    /\ Len(pipe_w) > 0
    /\ Head(pipe_w).tag = SYNC_SUCCESS
    /\ pipe_w' = Tail(pipe_w)
    /\ cpc' = IF p.init THEN "hook_ready" ELSE "ready_exec"
    /\ UNCHANGED <<childRest, childAlive, pipe_r>>

ChildHookReady ==
    /\ ChildAt("hook_ready")
    /\ pipe_r' = Append(pipe_r, Msg(SYNC_SUCCESS, ""))
    /\ cpc' = "wait_hooks_done"
    /\ UNCHANGED <<childRest, childAlive, pipe_w>>

ChildHooksDone ==
    /\ ChildAt("wait_hooks_done")
    /\ Len(pipe_w) > 0
    /\ Head(pipe_w).tag = SYNC_SUCCESS
    /\ pipe_w' = Tail(pipe_w)
    /\ cpc' = "ready_exec"
    /\ UNCHANGED <<childRest, childAlive, pipe_r>>

\* "ready to exec", then execve of the workload
ChildReadyExec ==
    /\ ChildAt("ready_exec")
    /\ pipe_r' = Append(pipe_r, Msg(SYNC_SUCCESS, ""))
    /\ cpc' = "exec"
    /\ UNCHANGED <<childRest, childAlive, pipe_w>>

\* a child-side error before exec: the child reports FAILURE and exits
ChildFail ==
    /\ childAlive
    /\ cpc \notin {"exec", "failed"}
    /\ pipe_r' = Append(pipe_r, Msg(SYNC_FAILED, "error"))
    /\ cpc' = "failed"
    /\ childAlive' = FALSE
    /\ UNCHANGED <<childRest, pipe_w>>

\* the parent's pipe ends are closed and nothing is left to read: end of file
ChildEof ==
    /\ childAlive
    /\ cpc \in {"rd_spec", "rd_process", "rd_state", "rd_cm", "wait_continue",
                "wait_hooks_done"}
    /\ ~pipesOpen
    /\ Len(pipe_w) = 0
    /\ cpc' = "failed"
    /\ childAlive' = FALSE
    /\ UNCHANGED <<childRest, pipe_w, pipe_r>>

\* the workload ends by itself after the exec
ChildExit ==
    /\ ChildAt("exec")
    /\ cpc' = "exited"
    /\ childAlive' = FALSE
    /\ UNCHANGED <<childRest, pipe_w, pipe_r>>

----------------------------------------------------------------------------
(* The caller of join_namespaces (LinuxContainer::start, reached from the  *)
(* CLI's run_container): what it does with the coordinator's result, by    *)
(* the spec's section 4.F ("Any failure at any step: ..." and step 11).    *)

startRest == <<spec, p, use_systemd_cgroup, ppc, userns, result, failedAt,
               pipe_w, pipe_r, cpc, mapFiles, fds, listed, probe, cli, logger, device, mount, manager, status, racers>>

\* the parent closes both pipe ends
StartClosePipes ==
    /\ result = "err"
    /\ startResult = "pending"
    /\ pipesOpen' = FALSE
    /\ startResult' = "cleanup"
    /\ UNCHANGED <<startRest, childAlive, plog, cg, stateFile>>

\* sends SIGKILL to the child if it still exists, calls destroy() on the
\* cgroup manager, removes the partially written state file and surfaces the
\* error
StartCleanupReturnErr ==
    /\ startResult = "cleanup"
    /\ childAlive' = FALSE
    /\ plog' = plog \o (IF childAlive THEN <<Ev("SIGKILL", "child")>> ELSE <<>>)
                    \o <<Ev("destroy", "cgroup")>>
    /\ cg' = [cg EXCEPT !.destroyed = TRUE]
    /\ stateFile' = None
    /\ startResult' = "err"
    /\ UNCHANGED <<startRest, pipesOpen>>

\* step 11: the parent writes the container record and returns success
StartReturnOk ==
    /\ result = "ok"
    /\ startResult = "pending"
    /\ stateFile' = Some([init_process_pid |-> p.pid])
    /\ pipesOpen' = FALSE
    /\ startResult' = "ok"
    /\ UNCHANGED <<startRest, childAlive, plog, cg>>

----------------------------------------------------------------------------
(* list (container_cmd.rs): one row per state file that loads *)

\* celler::container::is_process_running: the pid designates a live process.
\* It is handed the pid alone: the process may be the init or, once the init
\* is gone, an unrelated process that was given the same pid.
is_process_running(pid) == pid = p.pid /\ (childAlive \/ cli.reused)

\* a seeded fault: stopped containers are listed without --all as well
list_containers_no_filter(show_all) ==
    IF IsNone(stateFile) THEN <<>>
    ELSE LET actual_status == IF is_process_running(Unwrap(stateFile).init_process_pid)
                              THEN "Running" ELSE "Stopped"
         IN  <<[pid |-> Unwrap(stateFile).init_process_pid, status |-> actual_status]>>

list_containers(show_all) ==
    IF IsNone(stateFile) THEN <<>>
    ELSE LET actual_status == IF is_process_running(Unwrap(stateFile).init_process_pid)
                              THEN "Running" ELSE "Stopped"
         IN  IF ~show_all /\ actual_status = "Stopped" THEN <<>>
             ELSE <<[pid |-> Unwrap(stateFile).init_process_pid, status |-> actual_status]>>

\* a list command issued once the run command has returned
List ==
    /\ startResult \in {"ok", "err"}
    /\ \E show_all \in BOOLEAN :
          listed' = Some([all |-> show_all, rows |-> list_containers(show_all)])
    /\ UNCHANGED <<spec, p, use_systemd_cgroup, ppc, userns, result, failedAt,
                   pipe_w, pipe_r, pipesOpen, cpc, childAlive, plog, mapFiles,
                   fds, cg, stateFile, startResult, probe, cli, logger, device, mount, manager, status, racers>>

----------------------------------------------------------------------------
(* The handshake specification *)

HsNamespaces == {None} \cup {Some(l) : l \in SeqsUpTo(HsEntries, MaxPlan)}

HsLinux == [namespaces : HsNamespaces, resources : {None, Some("limits")},
            uid_mappings : HsMappings, gid_mappings : HsMappings]

HsSpecs == [linux : {None} \cup {Some(l) : l \in HsLinux},
            hooks : {None} \cup {Some(n) : n \in 0..MaxHooks}]

\* no forwarder task: nothing in the log pipe, nothing read
LoggerNone == [pipe |-> "", written |-> "", open |-> FALSE, end |-> "eof",
               pc |-> "none", calls |-> 0]

\* no storage device
DeviceNone == [path |-> None, kind |-> "none", entries |-> 0,
               before |-> [kind |-> "none", entries |-> 0], res |-> "idle", n |-> 0]

\* parse_mount_flags has not been called
MountNone == [options |-> <<>>, flags |-> {}, pc |-> "idle"]

\* StorageHandlerManager::new(): no registration, no call made
ManagerNone == [handlers |-> <<>>, call |-> [types |-> <<>>, handler |-> "none"],
                last |-> "none", n |-> 0, global |-> FALSE]

\* no ContainerStatus
StatusNone == [cur_status |-> "none", pre_status |-> "none", calls |-> <<>>]

\* no concurrent delete commands
RacersNone == [bundle |-> FALSE, state |-> FALSE, image |-> FALSE, init |-> FALSE,
               pc |-> <<>>, res |-> <<>>]

\* the CLI's world before any command: no config.json under <bundle_base>/<id>
\* nor under a bundle path given to create, no state directory, no extracted
\* image, no cgroup directory, no unrelated process holding the init's pid, no
\* command in progress
CliNone == [bundle |-> None, custom |-> None, stateDir |-> FALSE, image |-> FALSE,
            cgroupDir |-> FALSE, reused |-> FALSE,
            pc |-> "idle", n |-> 0, last |-> [cmd |-> "none", res |-> "none"]]

NoProbe == [op |-> "none", ns |-> <<>>, ok |-> TRUE, enabled |-> FALSE, fd |-> None]

Init ==
    /\ spec \in HsSpecs
    /\ p \in [init : BOOLEAN, pid : {ChildPid}]
    /\ use_systemd_cgroup \in BOOLEAN
    /\ ppc = "begin"
    /\ userns = FALSE
    /\ result = "running"
    /\ failedAt = "none"
    /\ pipe_w = <<>>
    /\ pipe_r = <<>>
    /\ pipesOpen = TRUE
    /\ cpc = "rd_spec"
    /\ childAlive = TRUE
    /\ plog = <<>>
    /\ mapFiles = [uid_map |-> None, gid_map |-> None]
    /\ fds = {}
    /\ cg = [applied |-> {}, set |-> None, destroyed |-> FALSE]
    /\ stateFile = None
    /\ startResult = "pending"
    /\ listed = None
    /\ probe = NoProbe
    /\ cli = CliNone
    /\ mount = MountNone
    /\ manager = ManagerNone
    /\ status = StatusNone
    /\ racers = RacersNone
    /\ logger = LoggerNone
    /\ device = DeviceNone

Next ==
    \/ JoinBegin \/ SendSpec \/ WaitSpec \/ SendProcess \/ WaitProcess
    \/ SendState \/ WaitState \/ SendCm \/ WaitUserns \/ SetupMappings
    \/ ApplyCgroups \/ SetCgroups \/ SendContinue \/ WaitHooks \/ RunHooks
    \/ SendHooksDone \/ WaitExec
    \/ ChildRecvSpec \/ ChildRecvProcess \/ ChildRecvState \/ ChildRecvCm
    \/ ChildUsernsReady \/ ChildContinue \/ ChildHookReady \/ ChildHooksDone
    \/ ChildReadyExec \/ ChildFail \/ ChildEof \/ ChildExit
    \/ StartClosePipes \/ StartCleanupReturnErr \/ StartReturnOk
    \/ List

Spec == Init /\ [][Next]_vars

\* the step is join_namespaces returning an error that comes from outside
\* the configuration: a pipe read or write, a cgroup call, a map write, a
\* hook, or a failure reported by the child
EnvError == result' = "err" /\ result = "running" /\ failedAt' # "begin"

\* the handshake with a child that follows its contract and an environment
\* in which no operation fails
NextLive ==
    /\ \/ JoinBegin \/ SendSpec \/ WaitSpec \/ SendProcess \/ WaitProcess
       \/ SendState \/ WaitState \/ SendCm \/ WaitUserns \/ SetupMappings
       \/ ApplyCgroups \/ SetCgroups \/ SendContinue \/ WaitHooks \/ RunHooks
       \/ SendHooksDone \/ WaitExec
       \/ ChildRecvSpec \/ ChildRecvProcess \/ ChildRecvState \/ ChildRecvCm
       \/ ChildUsernsReady \/ ChildContinue \/ ChildHookReady \/ ChildHooksDone
       \/ ChildReadyExec \/ ChildEof \/ ChildExit
       \/ StartClosePipes \/ StartCleanupReturnErr \/ StartReturnOk
       \/ List
    /\ ~EnvError

\* the executor runs the coordinator whenever it can take a step and the
\* child is a process of its own: a step that stays possible is taken
SpecLive == Init /\ [][NextLive]_vars /\ WF_vars(NextLive)

----------------------------------------------------------------------------
(* The namespace resolver queries, applied to namespace lists *)

\* index of the first entry of kind pid, 0 when there is none
RECURSIVE FirstPid(_, _)
FirstPid(nss, i) ==
    IF i > Len(nss) THEN 0
    ELSE IF TypToString(nss[i].typ) = "pid" THEN i
    ELSE FirstPid(nss, i + 1)

\* fcntl::open(path, O_RDONLY, Mode::empty()): the empty pathname never opens
\* (ENOENT), another path opens when the file is there
OpenRdonly(path, exists) == path # "" /\ exists

\* a seeded fault: every pid entry that has a path is opened, the first one
\* is handed back
RECURSIVE OpenAllPid(_, _)
OpenAllPid(nss, i) ==
    IF i > Len(nss) THEN <<>>
    ELSE IF TypToString(nss[i].typ) = "pid" /\ IsSome(nss[i].path)
         THEN <<[path |-> Unwrap(nss[i].path), flags |-> "O_RDONLY"]>>
              \o OpenAllPid(nss, i + 1)
         ELSE OpenAllPid(nss, i + 1)

get_pid_namespace_open_all(linux, exists) ==
    LET nss == NamespacesOrDefault(linux)
        i == FirstPid(nss, 1)
    IN  IF i = 0 THEN [ok |-> TRUE, enabled |-> FALSE, fd |-> None, opens |-> <<>>]
        ELSE IF IsNone(nss[i].path)
        THEN [ok |-> TRUE, enabled |-> TRUE, fd |-> None, opens |-> <<>>]
        ELSE IF OpenRdonly(Unwrap(nss[i].path), exists)
        THEN [ok |-> TRUE, enabled |-> TRUE,
              fd |-> Some(Head(OpenAllPid(nss, 1))), opens |-> OpenAllPid(nss, 1)]
        ELSE [ok |-> FALSE, enabled |-> FALSE, fd |-> None, opens |-> <<>>]

\* get_pid_namespace(logger, linux) -> Result<PidNs>; `opens` lists the open
\* calls it makes, `fd` is the descriptor it hands back
get_pid_namespace(linux, exists) ==
    LET nss == NamespacesOrDefault(linux)
        i == FirstPid(nss, 1)
    IN  IF i = 0 THEN [ok |-> TRUE, enabled |-> FALSE, fd |-> None, opens |-> <<>>]
        ELSE IF IsNone(nss[i].path)
        THEN [ok |-> TRUE, enabled |-> TRUE, fd |-> None, opens |-> <<>>]
        ELSE LET path == Unwrap(nss[i].path)
                 o == [path |-> path, flags |-> "O_RDONLY"]
             IN  IF OpenRdonly(path, exists)
                 THEN [ok |-> TRUE, enabled |-> TRUE, fd |-> Some(o), opens |-> <<o>>]
                 ELSE [ok |-> FALSE, enabled |-> FALSE, fd |-> None, opens |-> <<o>>]

resolverRest == <<spec, p, use_systemd_cgroup, ppc, userns, result, failedAt,
                  pipe_w, pipe_r, pipesOpen, cpc, childAlive, plog, mapFiles,
                  cg, stateFile, startResult, listed, cli, logger, device, mount, manager, status, racers>>

\* the user-namespace-create query
ProbeUserns ==
    /\ probe' = [op |-> "userns", ns |-> NamespacesOrDefault(Linux), ok |-> TRUE,
                 enabled |-> is_userns_enabled(Linux), fd |-> None]
    /\ fds' = {}
    /\ UNCHANGED resolverRest

\* the PID-namespace probe; the descriptors of an earlier query are dropped
ProbePidNs ==
    /\ \E exists \in BOOLEAN :
          LET r == get_pid_namespace(Linux, exists)
          IN  /\ probe' = [op |-> "pidns", ns |-> NamespacesOrDefault(Linux),
                           ok |-> r.ok, enabled |-> r.enabled, fd |-> r.fd]
              /\ fds' = IF r.ok THEN {r.opens[i] : i \in 1..Len(r.opens)} ELSE {}
    /\ UNCHANGED resolverRest

ResolverLinux == [namespaces : {None} \cup {Some(l) : l \in SeqsUpTo(NsEntries(NsTypes), MaxNs)},
                  resources : {None}, uid_mappings : {None}, gid_mappings : {None}]

InitResolver ==
    /\ spec \in [linux : {Some(l) : l \in ResolverLinux}, hooks : {None}]
    /\ p = [init |-> TRUE, pid |-> ChildPid]
    /\ use_systemd_cgroup = FALSE
    /\ ppc = "idle"
    /\ userns = FALSE
    /\ result = "idle"
    /\ failedAt = "none"
    /\ pipe_w = <<>>
    /\ pipe_r = <<>>
    /\ pipesOpen = FALSE
    /\ cpc = "none"
    /\ childAlive = FALSE
    /\ plog = <<>>
    /\ mapFiles = [uid_map |-> None, gid_map |-> None]
    /\ fds = {}
    /\ cg = [applied |-> {}, set |-> None, destroyed |-> FALSE]
    /\ stateFile = None
    /\ startResult = "idle"
    /\ listed = None
    /\ probe = NoProbe
    /\ cli = CliNone
    /\ mount = MountNone
    /\ manager = ManagerNone
    /\ status = StatusNone
    /\ racers = RacersNone
    /\ logger = LoggerNone
    /\ device = DeviceNone

NextResolver == ProbeUserns \/ ProbePidNs

SpecResolver == InitResolver /\ [][NextResolver]_vars

----------------------------------------------------------------------------
(* update_namespaces: the sandbox rewrite of the namespace list, applied   *)
(* in place to the spec                                                     *)

\* TYPETONAME: the procfs name of each namespace kind
TYPETONAME ==
    [Ipc |-> "ipc", User |-> "user", Pid |-> "pid", Network |-> "net",
     Mount |-> "mnt", Cgroup |-> "cgroup", Uts |-> "uts"]

\* format!("/proc/{}/ns/{}", init_pid, name)
NsPath(init_pid, name) == "/proc/" \o ToString(init_pid) \o "/ns/" \o name

\* a seeded fault: only an absent path counts as unset
update_namespaces_absent_only(nss, init_pid) ==
    [i \in 1..Len(nss) |->
        IF nss[i].typ \in DOMAIN TYPETONAME /\ IsNone(nss[i].path)
        THEN [nss[i] EXCEPT !.path = Some(NsPath(init_pid, TYPETONAME[nss[i].typ]))]
        ELSE nss[i]]

\* for namespace in namespaces.iter_mut() { if TYPETONAME.contains_key(typ) {
\* if path.is_none_or(|p| p.is_empty()) { set_path(Some(ns_path)) } } }
update_namespaces(nss, init_pid) ==
    [i \in 1..Len(nss) |->
        IF /\ nss[i].typ \in DOMAIN TYPETONAME
           /\ (IsNone(nss[i].path) \/ Unwrap(nss[i].path) = "")
        THEN [nss[i] EXCEPT !.path = Some(NsPath(init_pid, TYPETONAME[nss[i].typ]))]
        ELSE nss[i]]

updateRest == <<p, use_systemd_cgroup, userns, failedAt, pipe_w, pipe_r,
                pipesOpen, cpc, childAlive, plog, mapFiles, fds, cg, stateFile,
                startResult, listed, cli, logger, device, mount, manager, status, racers>>

\* the init pids a second update_namespaces call is given
UpdatePids == {ChildPid, ChildPid + 1}

\* update_namespaces(logger, &mut spec, init_pid): Err when the spec has no
\* linux block, else the list (if any) is rewritten in place and Ok(()).
\* probe.ns keeps the list the first call was given.
UpdateNamespaces ==
    /\ ppc \in {"idle", "updated"}
    /\ ppc' = IF ppc = "idle" THEN "updated" ELSE "updated_twice"
    /\ probe' = IF ppc = "idle"
                THEN [op |-> "update",
                      ns |-> IF IsNone(spec.linux) THEN <<>> ELSE NamespacesOrDefault(Linux),
                      ok |-> IsSome(spec.linux), enabled |-> FALSE, fd |-> None]
                ELSE probe
    /\ IF IsNone(spec.linux)
       THEN /\ result' = "err"
            /\ UNCHANGED spec
       ELSE /\ result' = "ok"
            /\ IF IsNone(Linux.namespaces) THEN spec' = spec
                       ELSE \E init_pid \in (IF ppc = "idle" THEN {p.pid} ELSE UpdatePids) :
                               spec' = [spec EXCEPT !.linux = Some([Linux EXCEPT !.namespaces =
                                          Some(update_namespaces(Unwrap(Linux.namespaces), init_pid))])]
    /\ UNCHANGED updateRest

UpdateKinds == DOMAIN TYPETONAME

UpdateLinux == [namespaces : {None} \cup {Some(l) : l \in SeqsUpTo(NsEntries(UpdateKinds), MaxNs)},
                resources : {None}, uid_mappings : {None}, gid_mappings : {None}]

InitUpdate ==
    /\ spec \in [linux : {None} \cup {Some(l) : l \in UpdateLinux}, hooks : {None}]
    /\ p = [init |-> TRUE, pid |-> ChildPid]
    /\ use_systemd_cgroup = FALSE
    /\ ppc = "idle"
    /\ userns = FALSE
    /\ result = "idle"
    /\ failedAt = "none"
    /\ pipe_w = <<>>
    /\ pipe_r = <<>>
    /\ pipesOpen = FALSE
    /\ cpc = "none"
    /\ childAlive = FALSE
    /\ plog = <<>>
    /\ mapFiles = [uid_map |-> None, gid_map |-> None]
    /\ fds = {}
    /\ cg = [applied |-> {}, set |-> None, destroyed |-> FALSE]
    /\ stateFile = None
    /\ startResult = "idle"
    /\ listed = None
    /\ probe = NoProbe
    /\ cli = CliNone
    /\ mount = MountNone
    /\ manager = ManagerNone
    /\ status = StatusNone
    /\ racers = RacersNone
    /\ logger = LoggerNone
    /\ device = DeviceNone

NextUpdate == UpdateNamespaces

SpecUpdate == InitUpdate /\ [][NextUpdate]_vars

\* a spec handed to either of the two operations that need its linux
\* section: the handshake of join_namespaces or update_namespaces
SpecConfig == (Init \/ InitUpdate) /\ [][Next \/ NextUpdate]_vars

\* the sandbox scenario: the namespaces of the spec are pointed at the
\* sandbox's init by update_namespaces, then the container is started with
\* the rewritten spec
SandboxLinux == [namespaces : {None} \cup {Some(l) : l \in SeqsUpTo(NsEntries(NsTypes), MaxNs)},
                 resources : {None}, uid_mappings : HsMappings \ {None},
                 gid_mappings : {None}]

\* the container is started with the rewritten spec: join_namespaces is
\* entered with fresh pipes and a forked child
StartAfterUpdate ==
    /\ ppc \in {"updated", "updated_twice"}
    /\ result = "ok"
    /\ ppc' = "begin"
    /\ result' = "running"
    /\ \E init \in BOOLEAN : p' = [p EXCEPT !.init = init]
    /\ pipesOpen' = TRUE
    /\ cpc' = "rd_spec"
    /\ childAlive' = TRUE
    /\ startResult' = "pending"
    /\ UNCHANGED <<spec, use_systemd_cgroup, userns, failedAt, pipe_w, pipe_r, plog,
                   mapFiles, fds, cg, stateFile, listed, probe, cli, logger, device,
                   mount, manager, status, racers>>

InitSandbox ==
    /\ spec \in [linux : {Some(l) : l \in SandboxLinux}, hooks : {None}]
    /\ p = [init |-> TRUE, pid |-> ChildPid]
    /\ use_systemd_cgroup = FALSE
    /\ ppc = "idle"
    /\ userns = FALSE
    /\ result = "idle"
    /\ failedAt = "none"
    /\ pipe_w = <<>>
    /\ pipe_r = <<>>
    /\ pipesOpen = FALSE
    /\ cpc = "none"
    /\ childAlive = FALSE
    /\ plog = <<>>
    /\ mapFiles = [uid_map |-> None, gid_map |-> None]
    /\ fds = {}
    /\ cg = [applied |-> {}, set |-> None, destroyed |-> FALSE]
    /\ stateFile = None
    /\ startResult = "idle"
    /\ listed = None
    /\ probe = NoProbe
    /\ cli = CliNone
    /\ logger = LoggerNone
    /\ device = DeviceNone
    /\ mount = MountNone
    /\ manager = ManagerNone
    /\ status = StatusNone
    /\ racers = RacersNone

NextSandbox == UpdateNamespaces \/ StartAfterUpdate \/ Next

SpecSandbox == InitSandbox /\ [][NextSandbox]_vars

----------------------------------------------------------------------------
(* The ID-map writer applied to lists of ID mappings, under every outcome  *)
(* of the open and of the write                                            *)

MaxMaps == 3      \* entries per list of ID mappings

IdMapOne == [container_id |-> 1, host_id |-> 1000, size |-> 1]
IdMaps == {IdMapNone, IdMapOne, IdMapFull}

\* the descriptors open after a sequence of operations on the map files
RECURSIVE FdsAfter(_, _)
FdsAfter(open, events) ==
    IF events = <<>> THEN open
    ELSE LET e == Head(events)
             fd == [path |-> e.file, flags |-> "O_WRONLY"]
         IN  FdsAfter(IF e.op = "open_wronly" THEN open \cup {fd}
                      ELSE IF e.op = "close" THEN open \ {fd}
                      ELSE open,
                      Tail(events))

mapsRest == <<spec, p, use_systemd_cgroup, userns, failedAt, pipe_w, pipe_r,
              pipesOpen, cpc, childAlive, cg, stateFile, startResult, listed,
              probe, cli, logger, device, mount, manager, status, racers>>

\* one call write_mappings(logger, "/proc/<pid>/<file>", maps) on the uid or
\* the gid mappings of the spec
WriteMappings ==
    /\ ppc = "idle"
    /\ \E file \in {"uid_map", "gid_map"}, openOk \in BOOLEAN,
         writeRes \in {"ok", "partial", "err"} :
          LET maps == VecOrDefault(IF file = "uid_map" THEN Linux.uid_mappings
                                   ELSE Linux.gid_mappings)
              r == write_mappings(file, maps, openOk, writeRes)
          IN  /\ plog' = plog \o r.events
              /\ mapFiles' = [mapFiles EXCEPT ![file] = r.written]
              /\ fds' = FdsAfter(fds, r.events)
              /\ result' = IF r.ok THEN "ok" ELSE "err"
              /\ ppc' = file
    /\ UNCHANGED mapsRest

MapsLinux == [namespaces : {None}, resources : {None},
              uid_mappings : {None} \cup {Some(l) : l \in SeqsUpTo(IdMaps, MaxMaps)},
              gid_mappings : {None}]

\* the same list is given as the uid and as the gid mappings
InitMaps ==
    /\ \E l \in MapsLinux :
          spec = [linux |-> Some([l EXCEPT !.gid_mappings = l.uid_mappings]), hooks |-> None]
    /\ p = [init |-> TRUE, pid |-> ChildPid]
    /\ use_systemd_cgroup = FALSE
    /\ ppc = "idle"
    /\ userns = TRUE
    /\ result = "idle"
    /\ failedAt = "none"
    /\ pipe_w = <<>>
    /\ pipe_r = <<>>
    /\ pipesOpen = FALSE
    /\ cpc = "none"
    /\ childAlive = TRUE
    /\ plog = <<>>
    /\ mapFiles = [uid_map |-> None, gid_map |-> None]
    /\ fds = {}
    /\ cg = [applied |-> {}, set |-> None, destroyed |-> FALSE]
    /\ stateFile = None
    /\ startResult = "idle"
    /\ listed = None
    /\ probe = NoProbe
    /\ cli = CliNone
    /\ mount = MountNone
    /\ manager = ManagerNone
    /\ status = StatusNone
    /\ racers = RacersNone
    /\ logger = LoggerNone
    /\ device = DeviceNone

NextMaps == WriteMappings

SpecMaps == InitMaps /\ [][NextMaps]_vars

----------------------------------------------------------------------------
(* The descriptor of a join-existing PID namespace: opened by              *)
(* get_pid_namespace, held in the PidNs it returns, inherited by the child *)
(* when it is spawned and closed by the caller of the start (section 4.F   *)
(* of the spec: the parent "closes any namespace descriptors opened by the *)
(* resolver").                                                             *)

pidnsRest == <<spec, p, use_systemd_cgroup, userns, failedAt, pipe_w, pipe_r,
               pipesOpen, cpc, mapFiles, cg, stateFile, startResult, listed, cli, logger, device, mount, manager, status, racers>>

\* let pidns = get_pid_namespace(logger, linux)?
PidNsOpen ==
    /\ ppc = "idle"
    /\ \E exists \in BOOLEAN :
          LET r == get_pid_namespace(Linux, exists)
          IN  /\ probe' = [op |-> "pidns", ns |-> NamespacesOrDefault(Linux),
                           ok |-> r.ok, enabled |-> r.enabled, fd |-> r.fd]
              /\ fds' = IF r.ok THEN {r.opens[i] : i \in 1..Len(r.opens)} ELSE {}
              /\ plog' = IF r.ok
                         THEN [i \in 1..Len(r.opens) |-> Ev("open_rdonly", r.opens[i].path)]
                         ELSE <<>>
              /\ result' = IF r.ok THEN "running" ELSE "err"
              /\ ppc' = IF r.ok THEN "holding" ELSE "returned"
    /\ UNCHANGED <<pidnsRest, childAlive>>

\* the child is spawned and inherits the descriptor of the PidNs
PidNsSpawn ==
    /\ ppc = "holding"
    /\ ppc' = "spawned"
    /\ childAlive' = TRUE
    /\ UNCHANGED <<pidnsRest, result, probe, fds, plog>>

\* the start ends, with an error at any point after the resolver or with
\* success once the child has the descriptor: the parent closes the
\* descriptor its PidNs holds
PidNsStartEnds ==
    /\ ppc \in {"holding", "spawned"}
    /\ \E ok \in BOOLEAN :
          /\ ok => ppc = "spawned"
          /\ result' = IF ok THEN "ok" ELSE "err"
    /\ IF IsSome(probe.fd)
       THEN /\ fds' = fds \ {Unwrap(probe.fd)}
            /\ plog' = Append(plog, Ev("close", Unwrap(probe.fd).path))
       ELSE UNCHANGED <<fds, plog>>
    /\ ppc' = "returned"
    /\ UNCHANGED <<pidnsRest, childAlive, probe>>

InitPidNs ==
    /\ spec \in [linux : {Some(l) : l \in ResolverLinux}, hooks : {None}]
    /\ p = [init |-> TRUE, pid |-> ChildPid]
    /\ use_systemd_cgroup = FALSE
    /\ ppc = "idle"
    /\ userns = FALSE
    /\ result = "idle"
    /\ failedAt = "none"
    /\ pipe_w = <<>>
    /\ pipe_r = <<>>
    /\ pipesOpen = FALSE
    /\ cpc = "none"
    /\ childAlive = FALSE
    /\ plog = <<>>
    /\ mapFiles = [uid_map |-> None, gid_map |-> None]
    /\ fds = {}
    /\ cg = [applied |-> {}, set |-> None, destroyed |-> FALSE]
    /\ stateFile = None
    /\ startResult = "idle"
    /\ listed = None
    /\ probe = NoProbe
    /\ cli = CliNone
    /\ mount = MountNone
    /\ manager = ManagerNone
    /\ status = StatusNone
    /\ racers = RacersNone
    /\ logger = LoggerNone
    /\ device = DeviceNone

NextPidNs == PidNsOpen \/ PidNsSpawn \/ PidNsStartEnds

SpecPidNs == InitPidNs /\ [][NextPidNs]_vars

----------------------------------------------------------------------------
(* The log forwarder: setup_child_logger spawns a task that reads the      *)
(* child's log pipe line by line and logs every line.                      *)

MaxLog == 3               \* bytes the child writes to its log pipe
LogChars == {"a", "b", "\n"}
LogEnd == "read child process log end"
LogError == "read child process log error"

\* position of the first line feed of s at or after i, 0 when there is none
RECURSIVE FirstLf(_, _)
FirstLf(s, i) ==
    IF i > Len(s) THEN 0
    ELSE IF SubSeq(s, i, i) = "\n" THEN i ELSE FirstLf(s, i + 1)

\* lines.next_line().await on the buffered pipe: a line without its line
\* feed, the unterminated rest once the write end is closed, Ok(None) at the
\* end of the stream, Err on a broken descriptor; it waits (res "pending")
\* while the write end is open and no line is complete
next_line(l) ==
    LET i == FirstLf(l.pipe, 1)
    IN  IF i > 0
        THEN [res |-> "some", line |-> SubSeq(l.pipe, 1, i - 1),
              rest |-> SubSeq(l.pipe, i + 1, Len(l.pipe))]
        ELSE IF l.open THEN [res |-> "pending", line |-> "", rest |-> l.pipe]
        ELSE IF l.end = "err" THEN [res |-> "err", line |-> "", rest |-> l.pipe]
        ELSE IF l.pipe # "" THEN [res |-> "some", line |-> l.pipe, rest |-> ""]
        ELSE [res |-> "none", line |-> "", rest |-> ""]

loggerRest == <<spec, p, use_systemd_cgroup, ppc, userns, result, failedAt, pipe_w,
                pipe_r, pipesOpen, cpc, childAlive, mapFiles, fds, cg, stateFile,
                startResult, listed, probe, cli, device, mount, manager, status, racers>>

\* a seeded fault: the task goes on reading after a read error
ForwardStepSpin ==
    /\ logger.pc = "loop"
    /\ logger.calls <= MaxLog + 2
    /\ LET r == next_line(logger)
       IN  /\ r.res # "pending"
           /\ plog' = Append(plog, Ev("info", CASE r.res = "err" -> LogError
                                                [] r.res = "none" -> LogEnd
                                                [] OTHER -> r.line))
           /\ logger' = [logger EXCEPT !.pipe = r.rest, !.calls = @ + 1,
                                       !.pc = IF r.res = "none" THEN "done" ELSE "loop"]
    /\ UNCHANGED loggerRest

\* one iteration of the loop of the task
ForwardStep ==
    /\ logger.pc = "loop"
    /\ LET r == next_line(logger)
       IN  /\ r.res # "pending"
           /\ plog' = Append(plog, Ev("info", CASE r.res = "err" -> LogError
                                                [] r.res = "none" -> LogEnd
                                                [] OTHER -> r.line))
           /\ logger' = [logger EXCEPT !.pipe = r.rest, !.calls = @ + 1,
                                       !.pc = IF r.res = "some" THEN "loop" ELSE "done"]
    /\ UNCHANGED loggerRest

\* the child writes one byte to its log descriptor
LogChildWrites ==
    /\ logger.open
    /\ Len(logger.written) < MaxLog
    /\ \E c \in LogChars :
          logger' = [logger EXCEPT !.pipe = @ \o c, !.written = @ \o c]
    /\ UNCHANGED <<loggerRest, plog>>

\* the write end goes away: the child exits (end of stream), or the
\* descriptor breaks
LogChildEnds ==
    /\ logger.open
    /\ \E e \in {"eof", "err"} :
          logger' = [logger EXCEPT !.open = FALSE, !.end = e]
    /\ UNCHANGED <<loggerRest, plog>>

InitLogger ==
    /\ spec = [linux |-> None, hooks |-> None]
    /\ p = [init |-> TRUE, pid |-> ChildPid]
    /\ use_systemd_cgroup = FALSE
    /\ ppc = "idle"
    /\ userns = FALSE
    /\ result = "idle"
    /\ failedAt = "none"
    /\ pipe_w = <<>>
    /\ pipe_r = <<>>
    /\ pipesOpen = FALSE
    /\ cpc = "none"
    /\ childAlive = FALSE
    /\ plog = <<>>
    /\ mapFiles = [uid_map |-> None, gid_map |-> None]
    /\ fds = {}
    /\ cg = [applied |-> {}, set |-> None, destroyed |-> FALSE]
    /\ stateFile = None
    /\ startResult = "idle"
    /\ listed = None
    /\ probe = NoProbe
    /\ cli = CliNone
    /\ mount = MountNone
    /\ manager = ManagerNone
    /\ status = StatusNone
    /\ racers = RacersNone
    /\ logger = [LoggerNone EXCEPT !.open = TRUE, !.pc = "loop"]
    /\ device = DeviceNone

NextLogger == ForwardStep \/ LogChildWrites \/ LogChildEnds

SpecLogger == InitLogger /\ [][NextLogger]_vars

----------------------------------------------------------------------------
(* The storage device: StorageDeviceGeneric::cleanup on the file system.   *)
(* device.kind and device.entries are what exists at DevDir; device.path   *)
(* is the path the device holds; device.before is what existed at DevDir   *)
(* when the last cleanup began.                                            *)

MaxEntries == 2           \* entries in the directory at DevDir
MaxCleanups == 2          \* cleanup calls on one device
DevDir == "/tmp/dev"
DevPaths == {None, Some(""), Some(DevDir), Some("/nonexistent/path")}
FsKinds == {"none", "dir", "file", "other"}

\* Path::new(path).exists()
PathExists(d, path) == path = DevDir /\ d.kind # "none"

\* a seeded fault: the directory is removed with its contents
cleanup_no_empty_check(d, readOk, removeOk) ==
    IF IsNone(d.path) \/ Unwrap(d.path) = "" THEN [res |-> "ok", kind |-> d.kind, entries |-> d.entries]
    ELSE IF ~PathExists(d, Unwrap(d.path)) THEN [res |-> "ok", kind |-> d.kind, entries |-> d.entries]
    ELSE IF d.kind = "dir"
         THEN IF ~removeOk THEN [res |-> "err", kind |-> d.kind, entries |-> d.entries]
              ELSE [res |-> "ok", kind |-> "none", entries |-> 0]
    ELSE IF d.kind = "file" THEN [res |-> "ok", kind |-> d.kind, entries |-> d.entries]
    ELSE [res |-> "err", kind |-> d.kind, entries |-> d.entries]

\* StorageDeviceGeneric::cleanup; readOk and removeOk are the outcomes of
\* read_dir and fs::remove_dir
cleanup(d, readOk, removeOk) ==
    IF IsNone(d.path) THEN [res |-> "ok", kind |-> d.kind, entries |-> d.entries]
    ELSE IF Unwrap(d.path) = "" THEN [res |-> "ok", kind |-> d.kind, entries |-> d.entries]
    ELSE IF ~PathExists(d, Unwrap(d.path)) THEN [res |-> "ok", kind |-> d.kind, entries |-> d.entries]
    ELSE IF d.kind = "dir"
         THEN IF ~readOk THEN [res |-> "err", kind |-> d.kind, entries |-> d.entries]
              ELSE IF d.entries # 0 THEN [res |-> "err", kind |-> d.kind, entries |-> d.entries]
              ELSE IF ~removeOk THEN [res |-> "err", kind |-> d.kind, entries |-> d.entries]
              ELSE [res |-> "ok", kind |-> "none", entries |-> 0]
    ELSE IF d.kind = "file" THEN [res |-> "ok", kind |-> d.kind, entries |-> d.entries]
    ELSE [res |-> "err", kind |-> d.kind, entries |-> d.entries]

deviceRest == <<spec, p, use_systemd_cgroup, ppc, userns, result, failedAt, pipe_w,
                pipe_r, pipesOpen, cpc, childAlive, plog, mapFiles, fds, cg, stateFile,
                startResult, listed, probe, cli, logger, mount, manager, status, racers>>

\* device.cleanup()
DeviceCleanup ==
    /\ device.n < MaxCleanups
    /\ \E readOk \in BOOLEAN, removeOk \in BOOLEAN :
          LET r == cleanup(device, readOk, removeOk)
          IN  device' = [device EXCEPT !.before = [kind |-> device.kind, entries |-> device.entries],
                                       !.kind = r.kind, !.entries = r.entries,
                                       !.res = r.res, !.n = @ + 1]
    /\ UNCHANGED deviceRest

\* tempdir(): the directory is created, empty
FsTempdir ==
    /\ device.kind = "none"
    /\ device' = [device EXCEPT !.kind = "dir", !.entries = 0]
    /\ UNCHANGED deviceRest

\* fs::write(dir.join(..)): a file is created in the directory
FsWrite ==
    /\ device.kind = "dir"
    /\ device.entries < MaxEntries
    /\ device' = [device EXCEPT !.entries = @ + 1]
    /\ UNCHANGED deviceRest

InitDevice ==
    /\ spec = [linux |-> None, hooks |-> None]
    /\ p = [init |-> TRUE, pid |-> ChildPid]
    /\ use_systemd_cgroup = FALSE
    /\ ppc = "idle"
    /\ userns = FALSE
    /\ result = "idle"
    /\ failedAt = "none"
    /\ pipe_w = <<>>
    /\ pipe_r = <<>>
    /\ pipesOpen = FALSE
    /\ cpc = "none"
    /\ childAlive = FALSE
    /\ plog = <<>>
    /\ mapFiles = [uid_map |-> None, gid_map |-> None]
    /\ fds = {}
    /\ cg = [applied |-> {}, set |-> None, destroyed |-> FALSE]
    /\ stateFile = None
    /\ startResult = "idle"
    /\ listed = None
    /\ probe = NoProbe
    /\ cli = CliNone
    /\ mount = MountNone
    /\ manager = ManagerNone
    /\ status = StatusNone
    /\ racers = RacersNone
    /\ logger = LoggerNone
    /\ \E path \in DevPaths, kind \in FsKinds :
          device = [DeviceNone EXCEPT !.path = path, !.kind = kind]

NextDevice == DeviceCleanup \/ FsTempdir \/ FsWrite

SpecDevice == InitDevice /\ [][NextDevice]_vars

----------------------------------------------------------------------------
(* The mount options: parse_mount_flags folds a list of option strings     *)
(* into an MsFlags value. MsFlags is a bit set whose named flags are       *)
(* distinct bits, so a value is modelled as the set of its flag names and  *)
(* `|=` as set union.                                                      *)

MaxOpts == 2              \* options in one list

MountOptions == {"ro", "readonly", "nosuid", "nodev", "noexec", "sync", "remount",
                 "bind", "rbind", "private", "rprivate", "shared", "rshared",
                 "slave", "rslave", "rw", ""}

\* the arms of the match of parse_mount_flags
OptFlags(opt) ==
    CASE opt \in {"ro", "readonly"} -> {"MS_RDONLY"}
      [] opt = "nosuid" -> {"MS_NOSUID"}
      [] opt = "nodev" -> {"MS_NODEV"}
      [] opt = "noexec" -> {"MS_NOEXEC"}
      [] opt = "sync" -> {"MS_SYNCHRONOUS"}
      [] opt = "remount" -> {"MS_REMOUNT"}
      [] opt = "bind" -> {"MS_BIND"}
      [] opt = "rbind" -> {"MS_BIND", "MS_REC"}
      [] opt = "private" -> {"MS_PRIVATE"}
      [] opt = "rprivate" -> {"MS_PRIVATE", "MS_REC"}
      [] opt = "shared" -> {"MS_SHARED"}
      [] opt = "rshared" -> {"MS_SHARED", "MS_REC"}
      [] opt = "slave" -> {"MS_SLAVE"}
      [] opt = "rslave" -> {"MS_SLAVE", "MS_REC"}
      [] OTHER -> {}

\* a seeded fault: a recognized option replaces the flags collected so far
RECURSIVE MountFoldAssign(_, _, _)
MountFoldAssign(options, i, flags) ==
    IF i > Len(options) THEN flags
    ELSE MountFoldAssign(options, i + 1,
                         IF OptFlags(options[i]) = {} THEN flags ELSE OptFlags(options[i]))

parse_mount_flags_assign(options) == MountFoldAssign(options, 1, {})

\* the for loop of parse_mount_flags
RECURSIVE MountFold(_, _, _)
MountFold(options, i, flags) ==
    IF i > Len(options) THEN flags
    ELSE MountFold(options, i + 1, flags \cup OptFlags(options[i]))

parse_mount_flags(options) == MountFold(options, 1, {})

mountRest == <<spec, p, use_systemd_cgroup, ppc, userns, result, failedAt, pipe_w,
               pipe_r, pipesOpen, cpc, childAlive, plog, mapFiles, fds, cg, stateFile,
               startResult, listed, probe, cli, logger, device, manager, status, racers>>

\* let flags = parse_mount_flags(&options)
ParseMountFlags ==
    /\ mount.pc = "idle"
    /\ mount' = [mount EXCEPT !.flags = parse_mount_flags(mount.options), !.pc = "parsed"]
    /\ UNCHANGED mountRest

\* the same list is parsed again with two neighbouring options exchanged
ParseSwapped ==
    /\ mount.pc = "parsed"
    /\ \E i \in 1..(Len(mount.options) - 1) :
          LET o == mount.options
              sw == [k \in 1..Len(o) |-> IF k = i THEN o[i + 1] ELSE IF k = i + 1 THEN o[i] ELSE o[k]]
          IN  mount' = [options |-> sw, flags |-> parse_mount_flags(sw), pc |-> "swapped"]
    /\ UNCHANGED mountRest

\* the same list is parsed again with one of its options repeated at the end
ParseRepeated ==
    /\ mount.pc = "parsed"
    /\ \E i \in 1..Len(mount.options) :
          LET o == Append(mount.options, mount.options[i])
          IN  mount' = [options |-> o, flags |-> parse_mount_flags(o), pc |-> "repeated"]
    /\ UNCHANGED mountRest

InitMount ==
    /\ spec = [linux |-> None, hooks |-> None]
    /\ p = [init |-> TRUE, pid |-> ChildPid]
    /\ use_systemd_cgroup = FALSE
    /\ ppc = "idle"
    /\ userns = FALSE
    /\ result = "idle"
    /\ failedAt = "none"
    /\ pipe_w = <<>>
    /\ pipe_r = <<>>
    /\ pipesOpen = FALSE
    /\ cpc = "none"
    /\ childAlive = FALSE
    /\ plog = <<>>
    /\ mapFiles = [uid_map |-> None, gid_map |-> None]
    /\ fds = {}
    /\ cg = [applied |-> {}, set |-> None, destroyed |-> FALSE]
    /\ stateFile = None
    /\ startResult = "idle"
    /\ listed = None
    /\ probe = NoProbe
    /\ cli = CliNone
    /\ logger = LoggerNone
    /\ device = DeviceNone
    /\ \E n \in 0..MaxOpts : \E o \in [1..n -> MountOptions] :
          mount = [MountNone EXCEPT !.options = o]
    /\ manager = ManagerNone
    /\ status = StatusNone
    /\ racers = RacersNone

NextMount == ParseMountFlags \/ ParseSwapped \/ ParseRepeated

SpecMount == InitMount /\ [][NextMount]_vars

----------------------------------------------------------------------------
(* The storage handler registry: StorageHandlerManager maps driver types   *)
(* to handlers. manager.handlers is the HashMap, a function from the       *)
(* registered driver types to handler names.                               *)

MaxTypes == 2             \* driver types named by one add_handler call
MaxAdds == 3              \* add_handler calls on one manager

\* driver_types() of the four built-in handlers
BuiltinHandlers ==
    << [handler |-> "LocalHandler", types |-> <<"local">>],
       [handler |-> "BlockHandler", types |-> <<"block", "virtio-blk">>],
       [handler |-> "OverlayHandler", types |-> <<"overlay", "overlayfs">>],
       [handler |-> "ImagePullHandler", types |-> <<"image", "image-pull">>] >>

\* the driver types and handlers add_handler is called with
AddTypes == {"block", "virtio-blk", "unknown"}
AddHandlers == {"BlockHandler", "OtherHandler"}

\* HashMap::insert
MapInsert(hs, k, v) == [t \in (DOMAIN hs) \cup {k} |-> IF t = k THEN v ELSE hs[t]]

\* a seeded fault: a registered type is overwritten and the call succeeds
RECURSIVE AddFoldReplace(_, _, _, _)
AddFoldReplace(hs, types, i, h) ==
    IF i > Len(types) THEN [handlers |-> hs, res |-> "ok"]
    ELSE AddFoldReplace(MapInsert(hs, types[i], h), types, i + 1, h)

add_handler_replace(hs, driver_types, h) == AddFoldReplace(hs, driver_types, 1, h)

\* the for loop of add_handler
RECURSIVE AddFold(_, _, _, _)
AddFold(hs, types, i, h) ==
    IF i > Len(types) THEN [handlers |-> hs, res |-> "ok"]
    ELSE IF types[i] \in DOMAIN hs THEN [handlers |-> hs, res |-> "err"]
    ELSE AddFold(MapInsert(hs, types[i], h), types, i + 1, h)

\* StorageHandlerManager::add_handler
add_handler(hs, driver_types, h) == AddFold(hs, driver_types, 1, h)

\* StorageHandlerManager::handler
handler(hs, driver_type) == IF driver_type \in DOMAIN hs THEN Some(hs[driver_type]) ELSE None

\* the initializer of STORAGE_HANDLERS: add_handler(..).unwrap() for each
\* built-in handler; res is "panic" when an unwrap fails
RECURSIVE StorageHandlersFrom(_, _)
StorageHandlersFrom(hs, i) ==
    IF i > Len(BuiltinHandlers) THEN [handlers |-> hs, res |-> "ok"]
    ELSE LET r == add_handler(hs, BuiltinHandlers[i].types, BuiltinHandlers[i].handler)
         IN  IF r.res = "err" THEN [handlers |-> r.handlers, res |-> "panic"]
             ELSE StorageHandlersFrom(r.handlers, i + 1)

managerRest == <<spec, p, use_systemd_cgroup, ppc, userns, result, failedAt, pipe_w,
                 pipe_r, pipesOpen, cpc, childAlive, plog, mapFiles, fds, cg, stateFile,
                 startResult, listed, probe, cli, logger, device, mount, status, racers>>

\* manager.add_handler(driver_types, handler)
AddHandler ==
    /\ ~manager.global
    /\ manager.n < MaxAdds
    /\ \E h \in AddHandlers, k \in 0..MaxTypes : \E types \in [1..k -> AddTypes] :
          LET r == add_handler(manager.handlers, types, h)
          IN  manager' = [manager EXCEPT !.handlers = r.handlers, !.last = r.res,
                                         !.call = [types |-> types, handler |-> h],
                                         !.n = @ + 1]
    /\ UNCHANGED managerRest

\* first use of STORAGE_HANDLERS: the lazy_static initializer runs
StorageHandlersInit ==
    /\ ~manager.global
    /\ manager.n = 0
    /\ LET r == StorageHandlersFrom(<<>>, 1)
       IN  manager' = [manager EXCEPT !.handlers = r.handlers, !.last = r.res,
                                      !.global = TRUE]
    /\ UNCHANGED managerRest

InitManager ==
    /\ spec = [linux |-> None, hooks |-> None]
    /\ p = [init |-> TRUE, pid |-> ChildPid]
    /\ use_systemd_cgroup = FALSE
    /\ ppc = "idle"
    /\ userns = FALSE
    /\ result = "idle"
    /\ failedAt = "none"
    /\ pipe_w = <<>>
    /\ pipe_r = <<>>
    /\ pipesOpen = FALSE
    /\ cpc = "none"
    /\ childAlive = FALSE
    /\ plog = <<>>
    /\ mapFiles = [uid_map |-> None, gid_map |-> None]
    /\ fds = {}
    /\ cg = [applied |-> {}, set |-> None, destroyed |-> FALSE]
    /\ stateFile = None
    /\ startResult = "idle"
    /\ listed = None
    /\ probe = NoProbe
    /\ cli = CliNone
    /\ logger = LoggerNone
    /\ device = DeviceNone
    /\ mount = MountNone
    /\ manager = ManagerNone
    /\ status = StatusNone
    /\ racers = RacersNone

NextManager == AddHandler \/ StorageHandlersInit

SpecManager == InitManager /\ [][NextManager]_vars

----------------------------------------------------------------------------
(* The container status: ContainerStatus keeps the current and the         *)
(* previous ContainerState; status.calls is the history of the arguments   *)
(* of its transition calls.                                                *)

MaxTransitions == 4       \* transition calls on one ContainerStatus
ContainerStates == {"Created", "Running", "Paused", "Stopped"}

\* ContainerStatus::new()
ContainerStatusNew == [pre_status |-> "Created", cur_status |-> "Created"]

\* a seeded fault: the previous status is taken after the update
transition_pre_after(s, to) ==
    LET s1 == [s EXCEPT !.cur_status = to]
    IN  [s1 EXCEPT !.pre_status = s1.cur_status]

\* ContainerStatus::transition
transition(s, to) ==
    LET s1 == [s EXCEPT !.pre_status = s.cur_status]
    IN  [s1 EXCEPT !.cur_status = to]

statusRest == <<spec, p, use_systemd_cgroup, ppc, userns, result, failedAt, pipe_w,
                pipe_r, pipesOpen, cpc, childAlive, plog, mapFiles, fds, cg, stateFile,
                startResult, listed, probe, cli, logger, device, mount, manager, racers>>

\* status.transition(to)
Transition ==
    /\ Len(status.calls) < MaxTransitions
    /\ \E to \in ContainerStates :
          LET r == transition([pre_status |-> status.pre_status, cur_status |-> status.cur_status], to)
          IN  status' = [pre_status |-> r.pre_status, cur_status |-> r.cur_status,
                         calls |-> Append(status.calls, to)]
    /\ UNCHANGED statusRest

InitStatus ==
    /\ spec = [linux |-> None, hooks |-> None]
    /\ p = [init |-> TRUE, pid |-> ChildPid]
    /\ use_systemd_cgroup = FALSE
    /\ ppc = "idle"
    /\ userns = FALSE
    /\ result = "idle"
    /\ failedAt = "none"
    /\ pipe_w = <<>>
    /\ pipe_r = <<>>
    /\ pipesOpen = FALSE
    /\ cpc = "none"
    /\ childAlive = FALSE
    /\ plog = <<>>
    /\ mapFiles = [uid_map |-> None, gid_map |-> None]
    /\ fds = {}
    /\ cg = [applied |-> {}, set |-> None, destroyed |-> FALSE]
    /\ stateFile = None
    /\ startResult = "idle"
    /\ listed = None
    /\ probe = NoProbe
    /\ cli = CliNone
    /\ logger = LoggerNone
    /\ device = DeviceNone
    /\ mount = MountNone
    /\ manager = ManagerNone
    /\ status = [pre_status |-> ContainerStatusNew.pre_status,
                 cur_status |-> ContainerStatusNew.cur_status, calls |-> <<>>]
    /\ racers = RacersNone

NextStatus == Transition

SpecStatus == InitStatus /\ [][NextStatus]_vars

----------------------------------------------------------------------------
(* The container commands of the CLI (container_cmd.rs) for one container  *)
(* id. A command runs to its end before the next one is issued; the init   *)
(* process may exit by itself at any moment. A file-system call succeeds   *)
(* when its target exists.                                                  *)

MaxCmds == 3      \* commands issued in one behaviour
Rootfs == {"/r1", "/r2"}

cliRest == <<spec, p, use_systemd_cgroup, ppc, userns, result, failedAt, pipe_w,
             pipe_r, pipesOpen, mapFiles, fds, cg, startResult, listed, probe, logger, device, mount, manager, status, racers>>

\* no command is in progress and one more may be issued
Idle == cli.pc = "idle" /\ cli.n < MaxCmds

Issue(c) == [c EXCEPT !.n = @ + 1]
Finish(c, cmd, res) == [c EXCEPT !.pc = "idle", !.last = [cmd |-> cmd, res |-> res]]

\* the config.json document: root.path, process.args, process.terminal
create_minimal_spec(rootfs, args, terminal) ==
    [root |-> rootfs, args |-> args, terminal |-> terminal]

\* bundle_path = bundle.unwrap_or(<bundle_base>/<id>); create_dir_all(..);
\* create_minimal_spec(rootfs, ["/bin/sh"], false); spec.save(config.json); Ok(())
CreateContainer ==
    /\ Idle
    /\ \E rootfs \in Rootfs, bundle \in {None, Some("/b")} :
          LET config == Some(create_minimal_spec(rootfs, <<"/bin/sh">>, FALSE))
          IN  cli' = Finish(IF IsNone(bundle)
                            THEN [Issue(cli) EXCEPT !.bundle = config]
                            ELSE [Issue(cli) EXCEPT !.custom = config],
                            "create", "ok")
    /\ plog' = Append(plog, Ev("save", "config.json"))
    /\ UNCHANGED <<cliRest, stateFile, childAlive, cpc>>

\* pull_and_extract(..)?; create_dir_all(bundle)?; spec.save(config.json)?;
\* LinuxContainer::new(..)?; Process::new(.., init = true, ..)?;
\* container.run_container(process).await?; Ok(())
\* `fails` is the call that returns Err ("none": the run succeeds). A failed
\* start has removed its state file and destroyed its cgroup (spec 4.F); the
\* cgroup directory of a successful run exists when the spec has resources.
RunContainer ==
    /\ Idle
    /\ ~childAlive /\ ~cli.reused
    /\ \E rootfs \in Rootfs, fails \in {"pull", "new", "process", "start", "none"},
         cgroup \in BOOLEAN :
          LET c == Issue(cli)
              saved == [c EXCEPT !.image = TRUE,
                                 !.bundle = Some(create_minimal_spec(rootfs, <<"/bin/true">>, FALSE))]
          IN  IF fails = "pull"
              THEN /\ cli' = Finish(c, "run", "err")
                   /\ UNCHANGED <<plog, stateFile, childAlive, cpc>>
              ELSE IF fails \in {"new", "process"}
              THEN /\ cli' = Finish(saved, "run", "err")
                   /\ plog' = Append(plog, Ev("save", "config.json"))
                   /\ UNCHANGED <<stateFile, childAlive, cpc>>
              ELSE IF fails = "start"
              THEN /\ cli' = Finish([saved EXCEPT !.cgroupDir = FALSE], "run", "err")
                   /\ plog' = Append(plog, Ev("save", "config.json"))
                   /\ stateFile' = None
                   /\ UNCHANGED <<childAlive, cpc>>
              ELSE /\ cli' = Finish([saved EXCEPT !.cgroupDir = cgroup, !.stateDir = TRUE],
                                    "run", "ok")
                   /\ plog' = Append(plog, Ev("save", "config.json"))
                   /\ stateFile' = Some([init_process_pid |-> p.pid])
                   /\ childAlive' = TRUE
                   /\ cpc' = "exec"
    /\ UNCHANGED cliRest

\* let state = load_container_state(..)?; if !is_process_running(pid) {
\* return Err }; Command::new("nsenter").args(--target=pid ..).status()?;
\* if !status.success() { return Err }; Ok(())
ExecInContainer ==
    /\ Idle
    /\ IF IsNone(stateFile)
       THEN /\ cli' = Finish(Issue(cli), "exec", "err")
            /\ UNCHANGED plog
       ELSE IF ~is_process_running(Unwrap(stateFile).init_process_pid)
       THEN /\ cli' = Finish(Issue(cli), "exec", "err")
            /\ UNCHANGED plog
       ELSE \E success \in BOOLEAN :
               /\ plog' = Append(plog, Ev("nsenter", IF childAlive THEN "init" ELSE "other"))
               /\ cli' = Finish(Issue(cli), "exec", IF success THEN "ok" ELSE "err")
    /\ UNCHANGED <<cliRest, stateFile, childAlive, cpc>>

\* a seeded fault: the liveness of the recorded pid is asked whatever its sign
DeleteBeginAnyPid ==
    /\ Idle
    /\ IF IsSome(stateFile)
       THEN IF is_process_running(Unwrap(stateFile).init_process_pid)
            THEN /\ plog' = plog \o <<Ev("delete", "begin"), Ev("is_process_running", "alive")>>
                 /\ cli' = [Issue(cli) EXCEPT !.pc = "kill"]
            ELSE /\ plog' = plog \o <<Ev("delete", "begin"), Ev("is_process_running", "dead")>>
                 /\ cli' = [Issue(cli) EXCEPT !.pc = "bundle"]
       ELSE /\ plog' = Append(plog, Ev("delete", "begin"))
            /\ cli' = [Issue(cli) EXCEPT !.pc = "bundle"]
    /\ UNCHANGED <<cliRest, stateFile, childAlive, cpc>>

\* match load_container_state(..) { Ok(state) => if state.init_process_pid > 0
\* { if is_process_running(pid) { kill .. } else { .. } }, Err(e) => { .. } }
DeleteBegin ==
    /\ Idle
    /\ IF IsSome(stateFile) /\ Unwrap(stateFile).init_process_pid > 0
       THEN IF is_process_running(Unwrap(stateFile).init_process_pid)
            THEN /\ plog' = plog \o <<Ev("delete", "begin"), Ev("is_process_running", "alive")>>
                 /\ cli' = [Issue(cli) EXCEPT !.pc = "kill"]
            ELSE /\ plog' = plog \o <<Ev("delete", "begin"), Ev("is_process_running", "dead")>>
                 /\ cli' = [Issue(cli) EXCEPT !.pc = "bundle"]
       ELSE /\ plog' = Append(plog, Ev("delete", "begin"))
            /\ cli' = [Issue(cli) EXCEPT !.pc = "bundle"]
    /\ UNCHANGED <<cliRest, stateFile, childAlive, cpc>>

\* a seeded fault: a failed kill is returned to the caller of delete
DeleteKillSurfaceErr ==
    /\ cli.pc = "kill"
    /\ IF childAlive \/ cli.reused
       THEN /\ plog' = Append(plog, Ev("SIGKILL", IF childAlive THEN "init" ELSE "other"))
            /\ childAlive' = FALSE
            /\ cpc' = IF childAlive THEN "exited" ELSE cpc
            /\ cli' = [cli EXCEPT !.pc = "sleep", !.reused = FALSE]
       ELSE /\ plog' = Append(plog, Ev("kill_err", "init"))
            /\ cli' = Finish(cli, "delete", "err")
            /\ UNCHANGED <<childAlive, cpc>>
    /\ UNCHANGED <<cliRest, stateFile>>

\* match signal::kill(pid, SIGKILL) { Ok(_) => sleep, Err(e) => warn }
\* the signal ends the process that holds the pid; kill fails when none does
DeleteKill ==
    /\ cli.pc = "kill"
    /\ IF childAlive \/ cli.reused
       THEN /\ plog' = Append(plog, Ev("SIGKILL", IF childAlive THEN "init" ELSE "other"))
            /\ childAlive' = FALSE
            /\ cpc' = IF childAlive THEN "exited" ELSE cpc
            /\ cli' = [cli EXCEPT !.pc = "sleep", !.reused = FALSE]
       ELSE /\ plog' = Append(plog, Ev("kill_err", "init"))
            /\ cli' = [cli EXCEPT !.pc = "bundle"]
            /\ UNCHANGED <<childAlive, cpc>>
    /\ UNCHANGED <<cliRest, stateFile>>

\* tokio::time::sleep(Duration::from_millis(100)).await
DeleteSleep ==
    /\ cli.pc = "sleep"
    /\ plog' = Append(plog, Ev("sleep", "100ms"))
    /\ cli' = [cli EXCEPT !.pc = "bundle"]
    /\ UNCHANGED <<cliRest, stateFile, childAlive, cpc>>

\* if Path::new(&bundle_path).exists() { fs::remove_dir_all(&bundle_path)?; }
DeleteBundle ==
    /\ cli.pc = "bundle"
    /\ IF IsSome(cli.bundle)
       THEN /\ plog' = Append(plog, Ev("remove_dir_all", "bundle"))
            /\ cli' = [cli EXCEPT !.bundle = None, !.pc = "state"]
       ELSE /\ cli' = [cli EXCEPT !.pc = "state"]
            /\ UNCHANGED plog
    /\ UNCHANGED <<cliRest, stateFile, childAlive, cpc>>

\* a seeded fault: the state directory is left in place
DeleteStateKeep ==
    /\ cli.pc = "state"
    /\ cli' = [cli EXCEPT !.pc = "image"]
    /\ UNCHANGED <<cliRest, plog, stateFile, childAlive, cpc>>

\* if Path::new(&state_path).exists() { fs::remove_dir_all(&state_path)?; }
DeleteState ==
    /\ cli.pc = "state"
    /\ IF cli.stateDir
       THEN /\ plog' = Append(plog, Ev("remove_dir_all", "state"))
            /\ cli' = [cli EXCEPT !.stateDir = FALSE, !.pc = "image"]
            /\ stateFile' = None
       ELSE /\ cli' = [cli EXCEPT !.pc = "image"]
            /\ UNCHANGED <<plog, stateFile>>
    /\ UNCHANGED <<cliRest, childAlive, cpc>>

\* storage::image::cleanup_image(id, logger)?; Ok(())
\* the storage collaborator removes the extracted rootfs of the id, if any
DeleteImage ==
    /\ cli.pc = "image"
    /\ plog' = plog \o <<Ev("cleanup_image", "rootfs"), Ev("delete", "ok")>>
    /\ cli' = Finish([cli EXCEPT !.image = FALSE], "delete", "ok")
    /\ UNCHANGED <<cliRest, stateFile, childAlive, cpc>>

\* async fn start_container(id, logger) { info!; warn!; Ok(()) }
StartContainer ==
    /\ Idle
    /\ cli' = Finish(Issue(cli), "start", "ok")
    /\ UNCHANGED <<cliRest, plog, stateFile, childAlive, cpc>>

\* list_containers(format, show_all, logger): the rows are printed, Ok(())
ListContainers ==
    /\ Idle
    /\ \E show_all \in BOOLEAN :
          listed' = Some([all |-> show_all, rows |-> list_containers(show_all)])
    /\ cli' = Finish(Issue(cli), "list", "ok")
    /\ UNCHANGED <<spec, p, use_systemd_cgroup, ppc, userns, result, failedAt,
                   pipe_w, pipe_r, pipesOpen, cpc, childAlive, plog, mapFiles,
                   fds, cg, stateFile, startResult, probe, logger, device, mount, manager, status, racers>>

\* the environment: after the init is gone the kernel gives its pid to an
\* unrelated process (started later, so with a different start time)
PidReused ==
    /\ ~childAlive /\ ~cli.reused
    /\ IsSome(stateFile)
    /\ cli' = [cli EXCEPT !.reused = TRUE]
    /\ UNCHANGED <<cliRest, plog, stateFile, childAlive, cpc>>

\* the environment: the unrelated process exits by itself
PidReleased ==
    /\ cli.reused
    /\ cli' = [cli EXCEPT !.reused = FALSE]
    /\ UNCHANGED <<cliRest, plog, stateFile, childAlive, cpc>>

\* pids a state file records when it designates no init process
NoInitPids == {0, -1}

\* the environment: a state file of the id that records no init process; the
\* last command no longer describes the directories of the id
StateWithoutInit ==
    /\ Idle
    /\ IsNone(stateFile) /\ ~childAlive /\ ~cli.stateDir
    /\ \E pid \in NoInitPids : stateFile' = Some([init_process_pid |-> pid])
    /\ cli' = [cli EXCEPT !.stateDir = TRUE,
                          !.last = [cmd |-> "none", res |-> "none"]]
    /\ UNCHANGED <<cliRest, plog, childAlive, cpc>>

InitCli ==
    /\ spec = [linux |-> None, hooks |-> None]
    /\ p = [init |-> TRUE, pid |-> ChildPid]
    /\ use_systemd_cgroup = FALSE
    /\ ppc = "idle"
    /\ userns = FALSE
    /\ result = "idle"
    /\ failedAt = "none"
    /\ pipe_w = <<>>
    /\ pipe_r = <<>>
    /\ pipesOpen = FALSE
    /\ cpc = "none"
    /\ childAlive = FALSE
    /\ plog = <<>>
    /\ mapFiles = [uid_map |-> None, gid_map |-> None]
    /\ fds = {}
    /\ cg = [applied |-> {}, set |-> None, destroyed |-> FALSE]
    /\ stateFile = None
    /\ startResult = "idle"
    /\ listed = None
    /\ probe = NoProbe
    /\ cli = CliNone
    /\ mount = MountNone
    /\ manager = ManagerNone
    /\ status = StatusNone
    /\ racers = RacersNone
    /\ logger = LoggerNone
    /\ device = DeviceNone

NextCli ==
    \/ CreateContainer \/ RunContainer \/ ExecInContainer
    \/ DeleteBegin \/ DeleteKill \/ DeleteSleep \/ DeleteBundle \/ DeleteState
    \/ DeleteImage
    \/ StartContainer \/ ListContainers
    \/ ChildExit \/ PidReused \/ PidReleased \/ StateWithoutInit

SpecCli == InitCli /\ [][NextCli]_vars

----------------------------------------------------------------------------
(* Two delete commands of one container id running concurrently            *)
(* (cli/src/container_cmd.rs, delete_container)                            *)

Deleters == {1, 2}        \* the two delete commands

raceRest == <<spec, p, use_systemd_cgroup, ppc, userns, result, failedAt, pipe_w,
              pipe_r, pipesOpen, cpc, childAlive, plog, mapFiles, fds, cg, stateFile,
              startResult, listed, probe, cli, logger, device, mount, manager, status>>

\* command d moves to position pc
RaceGoto(d, pc) == [racers EXCEPT !.pc[d] = pc]

\* command d returns res
RaceReturn(r, d, res) == [r EXCEPT !.pc[d] = "done", !.res[d] = res]

\* match load_container_state(..) { Ok(state) => if state.init_process_pid > 0
\*   { if is_process_running(pid) { kill .. } else { info } }, Err(e) => debug }
\* the state file lives in the state directory; no arm returns
RaceBegin(d) ==
    /\ racers.pc[d] = "idle"
    /\ racers' = RaceGoto(d, IF racers.state /\ racers.init THEN "kill" ELSE "chk_bundle")
    /\ UNCHANGED raceRest

\* match signal::kill(pid, SIGKILL) { Ok(_) => sleep(100ms), Err(e) => warn }
\* the signal ends the init; it fails when the other command has ended it
RaceKill(d) ==
    /\ racers.pc[d] = "kill"
    /\ racers' = IF racers.init
                 THEN [RaceGoto(d, "sleep") EXCEPT !.init = FALSE]
                 ELSE RaceGoto(d, "chk_bundle")
    /\ UNCHANGED raceRest

\* tokio::time::sleep(Duration::from_millis(100)).await
RaceSleep(d) ==
    /\ racers.pc[d] = "sleep"
    /\ racers' = RaceGoto(d, "chk_bundle")
    /\ UNCHANGED raceRest

\* if Path::new(&bundle_path).exists() {
RaceBundleExists(d) ==
    /\ racers.pc[d] = "chk_bundle"
    /\ racers' = RaceGoto(d, IF racers.bundle THEN "rm_bundle" ELSE "chk_state")
    /\ UNCHANGED raceRest

\* fs::remove_dir_all(&bundle_path)?; }   (NotFound when the path is gone)
RaceBundleRemove(d) ==
    /\ racers.pc[d] = "rm_bundle"
    /\ racers' = IF racers.bundle
                 THEN [RaceGoto(d, "chk_state") EXCEPT !.bundle = FALSE]
                 ELSE RaceReturn(racers, d, "err")
    /\ UNCHANGED raceRest

\* if Path::new(&state_path).exists() {
RaceStateExists(d) ==
    /\ racers.pc[d] = "chk_state"
    /\ racers' = RaceGoto(d, IF racers.state THEN "rm_state" ELSE "image")
    /\ UNCHANGED raceRest

\* fs::remove_dir_all(&state_path)?; }   (NotFound when the path is gone)
RaceStateRemove(d) ==
    /\ racers.pc[d] = "rm_state"
    /\ racers' = IF racers.state
                 THEN [RaceGoto(d, "image") EXCEPT !.state = FALSE]
                 ELSE RaceReturn(racers, d, "err")
    /\ UNCHANGED raceRest

\* storage::image::cleanup_image(id, logger)?; Ok(())
\* the storage collaborator removes the extracted rootfs of the id, if any
RaceImage(d) ==
    /\ racers.pc[d] = "image"
    /\ racers' = RaceReturn([racers EXCEPT !.image = FALSE], d, "ok")
    /\ UNCHANGED raceRest

\* the id has any of a bundle directory, a state directory, an extracted rootfs
\* and, with the state directory, a live init; both commands are about to start
InitRace ==
    /\ spec = [linux |-> None, hooks |-> None]
    /\ p = [init |-> TRUE, pid |-> ChildPid]
    /\ use_systemd_cgroup = FALSE
    /\ ppc = "idle"
    /\ userns = FALSE
    /\ result = "idle"
    /\ failedAt = "none"
    /\ pipe_w = <<>>
    /\ pipe_r = <<>>
    /\ pipesOpen = FALSE
    /\ cpc = "none"
    /\ childAlive = FALSE
    /\ plog = <<>>
    /\ mapFiles = [uid_map |-> None, gid_map |-> None]
    /\ fds = {}
    /\ cg = [applied |-> {}, set |-> None, destroyed |-> FALSE]
    /\ stateFile = None
    /\ startResult = "idle"
    /\ listed = None
    /\ probe = NoProbe
    /\ cli = CliNone
    /\ logger = LoggerNone
    /\ device = DeviceNone
    /\ mount = MountNone
    /\ manager = ManagerNone
    /\ status = StatusNone
    /\ \E bundle \in BOOLEAN, state \in BOOLEAN, image \in BOOLEAN, init \in BOOLEAN :
          /\ init => state
          /\ racers = [bundle |-> bundle, state |-> state, image |-> image, init |-> init,
                       pc |-> [d \in Deleters |-> "idle"],
                       res |-> [d \in Deleters |-> "running"]]

NextRace ==
    \/ \E d \in Deleters : RaceBegin(d)
    \/ \E d \in Deleters : RaceKill(d)
    \/ \E d \in Deleters : RaceSleep(d)
    \/ \E d \in Deleters : RaceBundleExists(d)
    \/ \E d \in Deleters : RaceBundleRemove(d)
    \/ \E d \in Deleters : RaceStateExists(d)
    \/ \E d \in Deleters : RaceStateRemove(d)
    \/ \E d \in Deleters : RaceImage(d)

SpecRace == InitRace /\ [][NextRace]_vars

----------------------------------------------------------------------------
(* Reading the history *)

\* position of the first occurrence of e in the history from i on, 0 when absent
RECURSIVE PosFrom(_, _)
PosFrom(e, i) ==
    IF i > Len(plog) THEN 0
    ELSE IF plog[i] = e THEN i
    ELSE PosFrom(e, i + 1)

Pos(e) == PosFrom(e, 1)
Has(e) == Pos(e) > 0

Count(e) == Cardinality({i \in 1..Len(plog) : plog[i] = e})

Sent(what) == Ev("send", what)
Recv(what) == Ev("recv", what)

MapOps == {"open_err", "open_wronly", "write", "write_err", "close"}
IsMapEvent(e) == e.op \in MapOps /\ e.file \in {"uid_map", "gid_map"}
IsCgroupCall(e) == e.file = "cgroup" /\ e.op \in {"apply", "apply_err", "set", "set_err"}
IsHookEvent(e) == e.op \in {"hook", "hook_err"}

\* the spec's classification (section 3): a user entry whose path is absent
\* or empty is user: CreateNew
SpecUsernsCreate(nss) ==
    \E i \in 1..Len(nss) :
        /\ nss[i].typ = "User"
        /\ (IsNone(nss[i].path) \/ nss[i].path = Some(""))

PlanHasUserCreate == IsSome(spec.linux) /\ SpecUsernsCreate(NamespacesOrDefault(Linux))
HasResources == IsSome(spec.linux) /\ IsSome(Res)

\* the parent is past the cgroup step of join_namespaces
ReachedContinue ==
    \/ ppc \in {"send_continue", "wait_hooks", "hooks", "send_hooks_done", "wait_exec"}
    \/ failedAt \in {"send_continue", "wait_hooks", "hooks", "send_hooks_done", "wait_exec"}
    \/ result = "ok"

ChildPastContinue == cpc \in {"hook_ready", "wait_hooks_done", "ready_exec", "exec", "exited"}

----------------------------------------------------------------------------
(* C1: the parent sends spec, process and state as DATA in that order, each *)
(* only after it has read the ack of the one before; message 4 (the cgroup  *)
(* manager) follows the ack of message 3, and after it the parent sends     *)
(* nothing until it has read "user-namespace ready".                        *)
C1_StrictHandshake ==
    LET spec1 == Pos(Sent("spec"))
        ack1 == Pos(Recv("ack_spec"))
        proc2 == Pos(Sent("process"))
        ack2 == Pos(Recv("ack_process"))
        state3 == Pos(Sent("state"))
        ack3 == Pos(Recv("ack_state"))
        cm4 == Pos(Sent("cm"))
        ready == Pos(Recv("userns_ready"))
    IN  /\ \A w \in {"spec", "process", "state", "cm"} : Count(Sent(w)) <= 1
        /\ \A i \in 1..Len(plog) : plog[i].op = "send" => spec1 \in 1..i
        /\ proc2 > 0 => (spec1 < ack1 /\ 0 < ack1 /\ ack1 < proc2)
        /\ state3 > 0 => (proc2 < ack2 /\ 0 < ack2 /\ ack2 < state3)
        /\ cm4 > 0 => (state3 < ack3 /\ 0 < ack3 /\ ack3 < cm4)
        /\ \A i \in 1..Len(plog) :
              (plog[i].op = "send" /\ plog[i].file \notin {"spec", "process", "state", "cm"})
                 => (0 < cm4 /\ cm4 < ready /\ ready < i)
        /\ \A i \in 1..Len(pipe_w) :
              pipe_w[i].what \in {"spec", "process", "state", "cm"} => pipe_w[i].tag = SYNC_DATA

\* the whole exchange of messages 1-4 has happened and the parent sent again
C1_Witness == Has(Sent("cm")) /\ Has(Sent("continue"))

(* C2: when the plan has user: CreateNew, the uid_map and gid_map writes    *)
(* happen after the parent read "user-namespace ready" and before it sends  *)
(* "continue", so a child past the continue point finds both maps written   *)
(* (a map whose payload is empty has nothing to write).                     *)
C2_MapsBeforeContinue ==
    PlanHasUserCreate =>
       LET ready == Pos(Recv("userns_ready"))
           cont == Pos(Sent("continue"))
           uid == MappingData(VecOrDefault(Linux.uid_mappings))
           gid == MappingData(VecOrDefault(Linux.gid_mappings))
       IN  /\ \A i \in 1..Len(plog) : IsMapEvent(plog[i]) =>
                 /\ 0 < ready /\ ready < i
                 /\ cont > 0 => i < cont
           /\ ChildPastContinue =>
                 /\ uid # "" => mapFiles.uid_map = Some(uid)
                 /\ gid # "" => mapFiles.gid_map = Some(gid)

(* C3: apply(child_pid) has returned successfully before set(resources,     *)
(* false) is issued, set is never issued after a failed apply, and both     *)
(* precede the "continue" signal.                                           *)
C3_ApplyBeforeSet ==
    LET applied == Pos(Ev("apply", "cgroup"))
        cont == Pos(Sent("continue"))
    IN  /\ \A i \in 1..Len(plog) :
              (plog[i] = Ev("set", "cgroup") \/ plog[i] = Ev("set_err", "cgroup")) =>
                 /\ 0 < applied /\ applied < i
                 /\ ~Has(Ev("apply_err", "cgroup"))
        /\ \A i \in 1..Len(plog) : (IsCgroupCall(plog[i]) /\ cont > 0) => i < cont

C3_Witness ==
    Has(Ev("apply", "cgroup")) /\ Has(Ev("set", "cgroup")) /\ Has(Sent("continue"))

(* C4: apply is issued iff the linux block has resources, set(resources,    *)
(* update=false) iff resources are present and the process is init: a       *)
(* non-init process causes no set, a spec without resources neither call.   *)
C4_CgroupCallsIff ==
    /\ (Has(Ev("apply", "cgroup")) \/ Has(Ev("apply_err", "cgroup"))) => HasResources
    /\ (Has(Ev("set", "cgroup")) \/ Has(Ev("set_err", "cgroup"))) => (HasResources /\ p.init)
    /\ ReachedContinue =>
          /\ HasResources => (Count(Ev("apply", "cgroup")) = 1 /\ p.pid \in cg.applied)
          /\ (HasResources /\ p.init) =>
                (Count(Ev("set", "cgroup")) = 1 /\ cg.set = Some([update |-> FALSE]))
    /\ ~HasResources => (cg.applied = {} /\ cg.set = None)
    /\ ~p.init => cg.set = None

\* a non-init process with resources: applied, past the cgroup step, no set
C4_Witness == ~p.init /\ HasResources /\ ReachedContinue /\ Has(Ev("apply", "cgroup"))

(* C5: when no user entry is classified CreateNew (user-namespace-create is *)
(* not enabled), the coordinator never opens or writes uid_map or gid_map.  *)
C5_NoMapsWithoutUserns ==
    (~PlanHasUserCreate \/ ~userns) =>
       /\ \A i \in 1..Len(plog) : ~IsMapEvent(plog[i])
       /\ mapFiles = [uid_map |-> None, gid_map |-> None]

\* mappings are configured, a user entry joins an existing namespace, and the
\* parent is past the mapping step
C5_Witness ==
    /\ IsSome(spec.linux)
    /\ ~PlanHasUserCreate
    /\ \E i \in 1..Len(NamespacesOrDefault(Linux)) : NamespacesOrDefault(Linux)[i].typ = "User"
    /\ MappingData(VecOrDefault(Linux.uid_mappings)) # ""
    /\ ReachedContinue

(* C6: is_userns_enabled returns true exactly when the list has an entry of *)
(* kind user whose path is absent or empty.                                 *)
C6_UsernsQuery ==
    probe.op = "userns" => (probe.enabled <=> SpecUsernsCreate(probe.ns))

(* C7: get_pid_namespace is decided by the first pid entry: none gives      *)
(* {enabled: false, fd: none}; an absent or empty path gives {enabled:      *)
(* true, fd: none} and opens nothing; a path gives {enabled: true, fd: f},  *)
(* f opened read-only on that path, or an error with no descriptor open.    *)
C7_PidProbe ==
    probe.op = "pidns" =>
       LET i == FirstPid(probe.ns, 1)
       IN  IF i = 0
           THEN probe.ok /\ ~probe.enabled /\ probe.fd = None /\ fds = {}
           ELSE IF IsNone(probe.ns[i].path) \/ probe.ns[i].path = Some("")
           THEN probe.ok /\ probe.enabled /\ probe.fd = None /\ fds = {}
           ELSE IF probe.ok
           THEN /\ probe.enabled
                /\ probe.fd = Some([path |-> Unwrap(probe.ns[i].path), flags |-> "O_RDONLY"])
                /\ fds = {Unwrap(probe.fd)}
           ELSE probe.fd = None /\ fds = {}

(* C8: prestart hooks run only for an init process, after the parent sent   *)
(* "continue" and read "ready for hooks" and before it sends "hooks         *)
(* complete"; for a non-init process the parent neither waits for "ready    *)
(* for hooks", nor runs a hook, nor sends "hooks complete": after           *)
(* "continue" it awaits "ready to exec".                                    *)
C8_HooksOnlyForInit ==
    LET cont == Pos(Sent("continue"))
        ready == Pos(Recv("hooks_ready"))
        done == Pos(Sent("hooks_done"))
    IN  /\ \A i \in 1..Len(plog) : IsHookEvent(plog[i]) =>
              /\ p.init
              /\ 0 < cont /\ cont < ready /\ ready < i
              /\ done > 0 => i < done
        /\ done > 0 => (p.init /\ 0 < ready /\ ready < done)
        /\ ~p.init =>
              /\ ready = 0 /\ done = 0
              /\ ppc \notin {"wait_hooks", "hooks", "send_hooks_done"}
              /\ (cont > 0 /\ result = "running") => ppc = "wait_exec"
              /\ \A i \in 1..Len(plog) :
                    (i > 1 /\ plog[i].op \in {"send", "recv"} /\ plog[i - 1] = Sent("continue"))
                       => plog[i] = Recv("exec_ready")

\* an init process whose configured hook ran and was followed by "hooks complete"
C8_Witness == p.init /\ Has(Ev("hook", "prestart")) /\ Has(Sent("hooks_done"))

(* C9: when a prestart hook fails the coordinator returns an error, never   *)
(* sends "hooks complete", the start is never reported successful, and a    *)
(* list issued afterwards does not show the container.                      *)
C9_HookFailureAborts ==
    Has(Ev("hook_err", "prestart")) =>
       /\ result = "err"
       /\ failedAt = "hooks"
       /\ ~Has(Sent("hooks_done"))
       /\ startResult # "ok"
       /\ IsSome(listed) => Unwrap(listed).rows = <<>>

\* a hook failed and a list --all was issued after the failed run returned
C9_Witness ==
    Has(Ev("hook_err", "prestart")) /\ IsSome(listed) /\ Unwrap(listed).all

----------------------------------------------------------------------------
(* The steps of join_namespaces in program order, and the step an entry of *)
(* the history belongs to                                                   *)

Steps == <<"begin", "send_spec", "wait_spec", "send_process", "wait_process",
           "send_state", "wait_state", "send_cm", "wait_userns", "mappings",
           "apply", "set", "send_continue", "wait_hooks", "hooks",
           "send_hooks_done", "wait_exec">>

Rank(s) == CHOOSE i \in 1..Len(Steps) : Steps[i] = s

ChannelSteps == {"send_spec", "wait_spec", "send_process", "wait_process",
                 "send_state", "wait_state", "send_cm", "wait_userns",
                 "send_continue", "wait_hooks", "send_hooks_done", "wait_exec"}

\* the entries written by the caller's cleanup belong to no step
IsStepEvent(e) == e.op \in {"send", "recv"} \/ IsMapEvent(e) \/ IsCgroupCall(e) \/ IsHookEvent(e)

StepOf(e) ==
    IF e.op = "send" THEN
        (IF e.file = "continue" THEN "send_continue"
         ELSE IF e.file = "hooks_done" THEN "send_hooks_done"
         ELSE IF e.file = "spec" THEN "send_spec"
         ELSE IF e.file = "process" THEN "send_process"
         ELSE IF e.file = "state" THEN "send_state"
         ELSE "send_cm")
    ELSE IF e.op = "recv" THEN
        (IF e.file = "ack_spec" THEN "wait_spec"
         ELSE IF e.file = "ack_process" THEN "wait_process"
         ELSE IF e.file = "ack_state" THEN "wait_state"
         ELSE IF e.file = "userns_ready" THEN "wait_userns"
         ELSE IF e.file = "hooks_ready" THEN "wait_hooks"
         ELSE "wait_exec")
    ELSE IF IsMapEvent(e) THEN "mappings"
    ELSE IF e.op \in {"apply", "apply_err"} THEN "apply"
    ELSE IF e.op \in {"set", "set_err"} THEN "set"
    ELSE "hooks"

(* C12: once a read or a write on the sync channel has failed at a step,   *)
(* the coordinator has returned an error and nothing of a later step has   *)
(* happened: no further message sent or read, no uid_map or gid_map write, *)
(* no cgroup apply or set, no hook.                                         *)
C12_ChannelFailureAborts ==
    (failedAt \in ChannelSteps /\ result # "panic") =>
       /\ result = "err"
       /\ ppc = "returned"
       /\ \A i \in 1..Len(plog) :
             IsStepEvent(plog[i]) => Rank(StepOf(plog[i])) < Rank(failedAt)
       /\ Rank(failedAt) < Rank("mappings") =>
             /\ mapFiles = [uid_map |-> None, gid_map |-> None]
             /\ cg.applied = {} /\ cg.set = None
       /\ Rank(failedAt) < Rank("hooks") => ~Has(Ev("hook", "prestart"))

\* the read of "user-namespace ready" failed in a start whose spec asks for
\* mappings, resources and a hook, and the failed start has returned
C12_Witness ==
    /\ failedAt = "wait_userns" /\ result = "err" /\ startResult = "err"
    /\ userns /\ HasResources /\ p.init /\ Prestart > 0
    /\ Has(Sent("cm"))

\* the error value join_namespaces returns from a position: the error of the
\* failing call, passed on by `?` with nothing added to it. read_async is
\* given the pipe only and write_async the pipe, the tag and the payload.
ErrorOf(at) ==
    IF at = "begin" THEN [from |-> "anyhow", msg |-> "Spec didn't contain linux field"]
    ELSE IF at \in {"send_spec", "send_process", "send_state", "send_cm",
                    "send_continue", "send_hooks_done"}
    THEN [from |-> "write_async", msg |-> "io"]
    ELSE IF at \in {"wait_spec", "wait_process", "wait_state", "wait_userns",
                    "wait_hooks", "wait_exec"}
    THEN [from |-> "read_async", msg |-> "io"]
    ELSE IF at = "mappings" THEN [from |-> "write_mappings", msg |-> "io"]
    ELSE IF at = "apply" THEN [from |-> "cm.apply", msg |-> "cgroup"]
    ELSE IF at = "set" THEN [from |-> "cm.set", msg |-> "cgroup"]
    ELSE [from |-> "execute_hooks", msg |-> "hook"]

(* C13: the error a failed start returns identifies the step that failed:  *)
(* a failure at any other step would have returned a different error.      *)
C13_ErrorNamesStep ==
    result = "err" =>
       \A i \in 1..Len(Steps) :
          Steps[i] # failedAt => ErrorOf(Steps[i]) # ErrorOf(failedAt)

(* C14: a start with the systemd cgroup driver selected is rejected with   *)
(* an error result: the coordinator never terminates abnormally, and when  *)
(* it is over it has returned an error.                                    *)
C14_SystemdRejected ==
    use_systemd_cgroup =>
       /\ result # "panic"
       /\ ppc = "returned" => result = "err"

(* C15: for a process with init = false, whatever the spec contains, the   *)
(* coordinator writes no uid_map or gid_map, issues no cgroup set and      *)
(* takes no part in a prestart-hook exchange.                              *)
C15_NonInitElides ==
    ~p.init =>
       /\ \A i \in 1..Len(plog) :
             /\ ~IsMapEvent(plog[i])
             /\ plog[i].op \notin {"set", "set_err"}
             /\ ~IsHookEvent(plog[i])
             /\ plog[i] # Recv("hooks_ready")
             /\ plog[i] # Sent("hooks_done")
       /\ mapFiles = [uid_map |-> None, gid_map |-> None]
       /\ cg.set = None

----------------------------------------------------------------------------
(* The container commands *)

\* the container is Running: its state file loads and the recorded pid
\* designates the live init process (the one with the recorded start time)
ContainerRunning ==
    IsSome(stateFile) /\ Unwrap(stateFile).init_process_pid = p.pid /\ childAlive

\* this step is the whole of command `cmd` (create, run and exec take one step)
Issued(cmd) ==
    /\ cli.pc = "idle" /\ cli'.pc = "idle"
    /\ cli'.n = cli.n + 1
    /\ cli'.last.cmd = cmd

\* this step belongs to a delete command
DeleteStep == cli.pc # "idle" \/ cli'.pc # "idle"

\* what a command can leave behind for the id
Artifacts == <<cli.bundle, cli.custom, cli.stateDir, cli.image, cli.cgroupDir, stateFile, childAlive>>

\* position in the history of the beginning of the latest delete, 0 when none
LastDeleteBegin ==
    LET s == {i \in 1..Len(plog) : plog[i] = Ev("delete", "begin")}
    IN  IF s = {} THEN 0 ELSE CHOOSE i \in s : \A j \in s : j <= i

(* C11: after a run of the id that failed (at the instance creation, the   *)
(* process creation or the handshake), no cgroup directory, no bundle      *)
(* config.json and no state file of the id remains. Stated for a run that  *)
(* is the first command on the id, so that what remains is its own.        *)
C11_FailedRunLeavesNothing ==
    (cli.n = 1 /\ cli.last = [cmd |-> "run", res |-> "err"]) =>
       /\ ~cli.cgroupDir
       /\ IsNone(cli.bundle)
       /\ IsNone(stateFile)

(* C16: exec returns an error and launches nothing when the id has no      *)
(* state file or its recorded init process is not running; it launches a   *)
(* process for the container only when the container is Running.           *)
C16_ExecOnlyWhenRunning ==
    [][ /\ (Len(plog') > Len(plog) /\ plog'[Len(plog')].op = "nsenter")
           => ContainerRunning
        /\ (Issued("exec") /\ ~ContainerRunning)
           => (cli'.last.res = "err" /\ plog' = plog) ]_vars

C18_SecondCreateFails ==
    [][ (/\ Issued("create")
         /\ cli.last = [cmd |-> "create", res |-> "ok"]
         /\ IsSome(cli.bundle) \/ IsSome(cli.custom))
           => (cli'.last.res = "err" /\ cli'.bundle = cli.bundle /\ cli'.custom = cli.custom) ]_vars

(* C19: delete sends SIGKILL only right after it observed the recorded     *)
(* init pid alive; a delete that begins when the init process is already   *)
(* dead sends no signal, and a delete that observed the pid dead goes on   *)
(* to remove the state and bundle directories and returns success.         *)
C19_KillOnlyIfAlive ==
    /\ [](/\ \A i \in 1..Len(plog) :
              /\ plog[i].op \in {"SIGKILL", "kill_err"} =>
                    (i > 1 /\ plog[i - 1] = Ev("is_process_running", "alive"))
              /\ (plog[i] = Ev("is_process_running", "dead") /\ i < Len(plog)) =>
                    plog[i + 1].op \in {"remove_dir_all", "cleanup_image"}
          /\ LET b == LastDeleteBegin
             IN  (/\ cli.pc = "idle" /\ cli.last.cmd = "delete"
                  /\ b > 0 /\ b < Len(plog)
                  /\ plog[b + 1] = Ev("is_process_running", "dead")) =>
                    /\ cli.last.res = "ok"
                    /\ IsNone(cli.bundle) /\ ~cli.stateDir /\ IsNone(stateFile)
                    /\ \A i \in b..Len(plog) : plog[i].op # "SIGKILL")
    /\ [][ (cli.pc = "idle" /\ cli'.pc # "idle" /\ ~childAlive) => cli'.pc # "kill" ]_vars

(* C20: delete calls destroy() on the cgroup manager before it removes the *)
(* bundle or the state directory, and after a SIGKILL it waits and then    *)
(* verifies that the process is gone before going on.                      *)
C20_DeleteOrder ==
    \A i \in 1..Len(plog) :
       /\ plog[i].op = "remove_dir_all" =>
             \E j \in 1..(i - 1) :
                /\ plog[j] = Ev("destroy", "cgroup")
                /\ \A k \in j..i : plog[k] # Ev("delete", "begin")
       /\ (plog[i].op = "SIGKILL" /\ i + 2 <= Len(plog)) =>
             /\ plog[i + 1] = Ev("sleep", "100ms")
             /\ plog[i + 2].op = "is_process_running"

C22_ListStoppedUnlessInitAlive ==
    [][ Issued("list") =>
           \A i \in 1..Len(Unwrap(listed').rows) :
              Unwrap(listed').rows[i].status = "Running" => ContainerRunning ]_vars

(* C23: start on an id that is unknown (no bundle and no state of it: here *)
(* start is the first command on the id) returns an error, never success.  *)
C23_StartUnknownFails ==
    (cli.n = 1 /\ cli.last.cmd = "start") => cli.last.res = "err"

----------------------------------------------------------------------------
(* The namespace rewrite *)

\* the procfs name the spec gives for each kind
ProcfsName(typ) ==
    CASE typ = "Ipc" -> "ipc" [] typ = "User" -> "user" [] typ = "Pid" -> "pid"
      [] typ = "Network" -> "net" [] typ = "Mount" -> "mnt" [] typ = "Uts" -> "uts"
      [] typ = "Cgroup" -> "cgroup"

(* C24: update_namespaces(spec, P) sets the path of every entry whose path *)
(* was absent or empty to /proc/P/ns/<name>, <name> the procfs name of the *)
(* entry's kind, and leaves the entries that had a non-empty path, the     *)
(* kinds and the order of the entries as they were.                        *)
C24_UpdateRewritesUnset ==
    (probe.op = "update" /\ probe.ok /\ ppc = "updated") =>
       LET before == probe.ns
           after == NamespacesOrDefault(Linux)
       IN  /\ result = "ok"
           /\ Len(after) = Len(before)
           /\ IsNone(Linux.namespaces) => before = <<>>
           /\ \A i \in 1..Len(before) :
                 /\ after[i].typ = before[i].typ
                 /\ after[i].path =
                       IF IsNone(before[i].path) \/ before[i].path = Some("")
                       THEN Some("/proc/" \o ToString(p.pid) \o "/ns/" \o ProcfsName(before[i].typ))
                       ELSE before[i].path

\* a list with a network entry of empty path after a mount entry that had a
\* path: the first is kept, the second rewritten
C24_Witness ==
    /\ probe.op = "update" /\ ppc = "updated"
    /\ Len(probe.ns) = 2
    /\ probe.ns[1] = [typ |-> "Mount", path |-> Some("/proc/9999/ns/x")]
    /\ probe.ns[2] = [typ |-> "Network", path |-> Some("")]
    /\ Linux.namespaces = Some(<<[typ |-> "Mount", path |-> Some("/proc/9999/ns/x")],
                                 [typ |-> "Network",
                                  path |-> Some("/proc/" \o ToString(ChildPid) \o "/ns/net")]>>)

----------------------------------------------------------------------------
(* The ID-map writer *)

\* the list write_mappings was called with, and the file it was called on
CalledMaps ==
    VecOrDefault(IF ppc = "uid_map" THEN Linux.uid_mappings ELSE Linux.gid_mappings)
MapCalled == ppc \in {"uid_map", "gid_map"}

\* the payload the spec gives for a list: the line of each entry of size # 0
ExpectedLine(e) ==
    IF e = IdMapOne THEN "1 1000 1\n"
    ELSE IF e = IdMapFull THEN "0 100000 65536\n"
    ELSE ""

RECURSIVE ExpectedPayload(_)
ExpectedPayload(maps) ==
    IF maps = <<>> THEN ""
    ELSE ExpectedPayload(SubSeq(maps, 1, Len(maps) - 1)) \o ExpectedLine(maps[Len(maps)])

(* C25: the payload write_mappings writes is the concatenation, in input   *)
(* order, of the line "container_id host_id size\n" of each entry with     *)
(* size # 0; when that payload is empty the file is neither opened nor     *)
(* written and the call succeeds.                                          *)
C25_MapPayload ==
    MapCalled =>
       LET expected == ExpectedPayload(CalledMaps)
       IN  /\ MappingData(CalledMaps) = expected
           /\ expected = "" => (result = "ok" /\ plog = <<>> /\ mapFiles[ppc] = None)
           /\ (expected # "" /\ result = "ok") =>
                 /\ Has(Ev("write", ppc))
                 /\ IsSome(mapFiles[ppc])
                 /\ \E n \in 0..Len(expected) : Unwrap(mapFiles[ppc]) = SubSeq(expected, 1, n)

\* a list whose middle entry has size 0 was written in full
C25_Witness ==
    /\ MapCalled /\ result = "ok"
    /\ CalledMaps = <<IdMapOne, IdMapNone, IdMapFull>>
    /\ mapFiles[ppc] = Some("1 1000 1\n0 100000 65536\n")

(* C26: when the write of the payload is partial (fewer bytes reached the  *)
(* file than the payload has), write_mappings returns an error: a partial  *)
(* map write is never a success.                                           *)
C26_PartialWriteIsError ==
    (/\ MapCalled
     /\ IsSome(mapFiles[ppc])
     /\ Unwrap(mapFiles[ppc]) # MappingData(CalledMaps)) => result = "err"

(* C27: a descriptor write_mappings opens on a map file is opened          *)
(* write-only, written with one write call and closed before the call      *)
(* returns, on the success path and on the write-error path; none is open  *)
(* after the call.                                                          *)
C27_MapFdClosed ==
    MapCalled =>
       /\ fds = {}
       /\ Has(Ev("open_wronly", ppc)) =>
             /\ plog[1] = Ev("open_wronly", ppc)
             /\ Len(plog) = 3
             /\ plog[2].op \in {"write", "write_err"} /\ plog[2].file = ppc
             /\ plog[3] = Ev("close", ppc)
       /\ \A i \in 1..Len(plog) :
             plog[i].op \in {"write", "write_err"} => (i = 2 /\ plog[1] = Ev("open_wronly", ppc))

\* the write failed after the open, and the call returned the error
C27_Witness ==
    MapCalled /\ result = "err" /\ Has(Ev("write_err", ppc)) /\ fds = {}

----------------------------------------------------------------------------
(* The PID-namespace descriptor *)

----------------------------------------------------------------------------
(* The log forwarder *)

\* the lines of s that end in a line feed, in order
RECURSIVE CompleteLines(_, _)
CompleteLines(s, cur) ==
    IF s = "" THEN <<>>
    ELSE LET c == SubSeq(s, 1, 1)
             t == SubSeq(s, 2, Len(s))
         IN  IF c = "\n" THEN <<cur>> \o CompleteLines(t, "")
             ELSE CompleteLines(t, cur \o c)

\* the text after the last line feed of s
RECURSIVE Unterminated(_, _)
Unterminated(s, cur) ==
    IF s = "" THEN cur
    ELSE IF SubSeq(s, 1, 1) = "\n" THEN Unterminated(SubSeq(s, 2, Len(s)), "")
         ELSE Unterminated(SubSeq(s, 2, Len(s)), cur \o SubSeq(s, 1, 1))

LogNotes == {i \in 1..Len(plog) : plog[i].file \in {LogEnd, LogError}}
Forwarded == [i \in 1..(Len(plog) - Cardinality(LogNotes)) |-> plog[i].file]

(* C29: the forwarder logs the complete lines of the child's log pipe in   *)
(* the order they were written, each once; the first end of stream or read *)
(* error ends the task: it is the last thing the task reacts to, no line   *)
(* is read or logged after it.                                             *)
C29_ForwarderStopsAtEnd ==
    LET lines == CompleteLines(logger.written, "")
    IN  /\ \A i \in 1..Len(plog) : plog[i].op = "info"
        /\ logger.calls = Len(plog)
        /\ LogNotes # {} <=> logger.pc = "done"
        /\ LogNotes \subseteq {Len(plog)}
        /\ Len(Forwarded) <= Len(lines) + 1
        /\ \A i \in 1..Len(Forwarded) :
              Forwarded[i] = IF i <= Len(lines) THEN lines[i]
                             ELSE Unterminated(logger.written, "")
        /\ Len(Forwarded) > Len(lines) => (~logger.open /\ logger.end = "eof")
        /\ logger.pc = "done" =>
              /\ ~logger.open
              /\ Len(Forwarded) >= Len(lines)
              /\ plog[Len(plog)].file = (IF logger.end = "eof" THEN LogEnd ELSE LogError)

\* two lines were forwarded before the descriptor broke
C29_Witness ==
    /\ logger.pc = "done" /\ logger.end = "err"
    /\ logger.written = "a\nb"
    /\ plog = <<Ev("info", "a"), Ev("info", LogError)>>

----------------------------------------------------------------------------
(* The storage device *)

\* the step is a cleanup call
CleanupStep == device'.n = device.n + 1
\* the cleanup left the file system as it was
DevUnchanged == device'.kind = device.kind /\ device'.entries = device.entries
\* the cleanup removed what was at the device path
DevRemoved == device.kind # "none" /\ device'.kind = "none"
\* the device path designates something that exists
DevExists == IsSome(device.path) /\ Unwrap(device.path) = DevDir /\ device.kind # "none"

----------------------------------------------------------------------------
(* The mount options *)

\* the flag sets the options stand for
RecognizedFlags ==
    [ro |-> {"MS_RDONLY"}, readonly |-> {"MS_RDONLY"}, nosuid |-> {"MS_NOSUID"},
     nodev |-> {"MS_NODEV"}, noexec |-> {"MS_NOEXEC"}, sync |-> {"MS_SYNCHRONOUS"},
     remount |-> {"MS_REMOUNT"}, bind |-> {"MS_BIND"}, rbind |-> {"MS_BIND", "MS_REC"},
     private |-> {"MS_PRIVATE"}, rprivate |-> {"MS_PRIVATE", "MS_REC"},
     shared |-> {"MS_SHARED"}, rshared |-> {"MS_SHARED", "MS_REC"},
     slave |-> {"MS_SLAVE"}, rslave |-> {"MS_SLAVE", "MS_REC"}]

ExpectedFlags(options) ==
    UNION {RecognizedFlags[options[i]] :
              i \in {k \in 1..Len(options) : options[k] \in DOMAIN RecognizedFlags}}

(* C31: the flags parse_mount_flags returns are the union of the flag sets *)
(* of the recognized options of the list: options that are not recognized  *)
(* add nothing, the empty list gives the empty set, and parsing the list   *)
(* with two options exchanged or with an option repeated gives the same    *)
(* flags.                                                                  *)
C31_MountFlagsAreUnion ==
    /\ [](mount.pc # "idle" => mount.flags = ExpectedFlags(mount.options))
    /\ []((mount.pc # "idle" /\ mount.options = <<>>) => mount.flags = {})
    /\ [][ (mount.pc = "parsed" /\ mount'.pc \in {"swapped", "repeated"})
             => mount'.flags = mount.flags ]_vars

\* <<"rbind", "ro">> was parsed, then parsed again with the two exchanged
C31_Witness ==
    /\ mount.pc = "swapped"
    /\ mount.options = <<"ro", "rbind">>
    /\ mount.flags = {"MS_RDONLY", "MS_BIND", "MS_REC"}

----------------------------------------------------------------------------
(* The storage handler registry *)

AllDriverTypes == AddTypes \cup {"local", "overlay", "overlayfs", "image", "image-pull", ""}
Range(s) == {s[i] : i \in 1..Len(s)}
\* the step is an add_handler call
AddStep == manager'.n = manager.n + 1
\* the call names a type that is registered already, or one type twice
NamesRegistered(types) ==
    \/ \E i \in 1..Len(types) : types[i] \in DOMAIN manager.handlers
    \/ \E i, j \in 1..Len(types) : i # j /\ types[i] = types[j]

(* C32: handler(t) gives a handler for the registered driver types and     *)
(* none for any other; an add_handler call never changes what a registered *)
(* type resolves to, registers nothing but types it names, to its own      *)
(* handler, and returns an error exactly when it names a type that is      *)
(* registered already; a call that returns success has registered every    *)
(* type it names. In the global registry local, block, virtio-blk,         *)
(* overlay, overlayfs, image and image-pull resolve, each to the handler   *)
(* that declares it, and no other name does.                               *)
C32_FirstRegistrationWins ==
    /\ [][ AddStep =>
            LET c == manager'.call
            IN  /\ \A t \in AllDriverTypes :
                     /\ IsSome(handler(manager.handlers, t))
                           => handler(manager'.handlers, t) = handler(manager.handlers, t)
                     /\ (IsNone(handler(manager.handlers, t)) /\ IsSome(handler(manager'.handlers, t)))
                           => (t \in Range(c.types) /\ handler(manager'.handlers, t) = Some(c.handler))
                /\ manager'.last = "err" <=> NamesRegistered(c.types)
                /\ manager'.last = "ok"
                      => \A t \in Range(c.types) : handler(manager'.handlers, t) = Some(c.handler)
         ]_vars
    /\ [](manager.global =>
            /\ manager.last = "ok"
            /\ \A i \in 1..Len(BuiltinHandlers) : \A t \in Range(BuiltinHandlers[i].types) :
                  handler(manager.handlers, t) = Some(BuiltinHandlers[i].handler)
            /\ \A t \in AllDriverTypes :
                  IsSome(handler(manager.handlers, t))
                     <=> t \in {"local", "block", "virtio-blk", "overlay", "overlayfs",
                                "image", "image-pull"})

\* a second handler named block after BlockHandler had registered it: the
\* call failed and block still resolves to BlockHandler
C32_Witness ==
    /\ manager.n = 2 /\ manager.last = "err"
    /\ manager.call = [types |-> <<"block">>, handler |-> "OtherHandler"]
    /\ handler(manager.handlers, "block") = Some("BlockHandler")
    /\ handler(manager.handlers, "virtio-blk") = Some("BlockHandler")

----------------------------------------------------------------------------
(* The container status *)

(* C34: a new ContainerStatus has current and previous status Created;     *)
(* after any transition calls the current status is the argument of the    *)
(* last call and the previous status is what the current status was just   *)
(* before that call.                                                       *)
C34_StatusTracksLastTransition ==
    LET n == Len(status.calls)
    IN  /\ n = 0 => (status.cur_status = "Created" /\ status.pre_status = "Created")
        /\ n > 0 => status.cur_status = status.calls[n]
        /\ n = 1 => status.pre_status = "Created"
        /\ n > 1 => status.pre_status = status.calls[n - 1]

\* Created, then Running, then Paused: Paused is current, Running previous
C34_Witness ==
    /\ status.calls = <<"Running", "Paused">>
    /\ status.cur_status = "Paused" /\ status.pre_status = "Running"

\* the edges of the lifecycle diagram
LifecycleEdges ==
    {<<"Created", "Running">>, <<"Running", "Paused">>, <<"Paused", "Running">>,
     <<"Created", "Stopped">>, <<"Running", "Stopped">>, <<"Paused", "Stopped">>}

(* C35: the current status of a ContainerStatus changes only along the     *)
(* edges of the lifecycle: Created to Running, Running to Paused, Paused   *)
(* to Running, and Created, Running or Paused to Stopped.                  *)
C35_OnlyLifecycleEdges ==
    [][ status'.cur_status # status.cur_status
          => <<status.cur_status, status'.cur_status>> \in LifecycleEdges ]_vars

----------------------------------------------------------------------------
(* Progress of the handshake *)

Succeeded == ppc = "returned" /\ result = "ok"
\* the spec has a linux section and the cgroupfs driver is asked for
ValidConfig == IsSome(spec.linux) /\ ~use_systemd_cgroup

(* C33, as stated: with a child that follows its contract and no I/O,      *)
(* cgroup, map-write or hook error, join_namespaces eventually returns     *)
(* success, for init and non-init processes.                               *)
C33_HandshakeSucceeds == <>Succeeded

(* C33, amended: with a child that follows its contract, no I/O, cgroup,   *)
(* map-write or hook error, and a valid configuration (the spec has a      *)
(* linux section and the cgroup driver is not systemd), join_namespaces    *)
(* eventually returns success, for init and non-init processes; neither    *)
(* side is left waiting for the other.                                     *)
C33_ValidHandshakeSucceeds == ValidConfig => <>Succeeded

\* a non-init process went through the whole handshake
C33_Witness ==
    /\ Succeeded /\ ~p.init /\ ValidConfig
    /\ Has(Ev("recv", "userns_ready")) /\ Has(Ev("send", "continue"))
    /\ Has(Ev("recv", "exec_ready"))

----------------------------------------------------------------------------
(* The list command *)

\* a process holds the pid
PidAlive(pid) == pid = p.pid /\ (childAlive \/ cli.reused)

(* C36: list shows a container only if its state file loads, as Running    *)
(* when its init pid is alive and as Stopped otherwise; without --all a    *)
(* Stopped container is left out, with --all every container whose state   *)
(* file loads is shown; an id without a loadable state file is skipped and *)
(* list still succeeds.                                                    *)
C36_ListShowsLoadedStates ==
    [][ Issued("list") =>
          LET rows == Unwrap(listed').rows
              all == Unwrap(listed').all
          IN  /\ cli'.last.res = "ok"
              /\ IsNone(stateFile) => rows = <<>>
              /\ \A i \in 1..Len(rows) :
                    /\ IsSome(stateFile)
                    /\ rows[i].pid = Unwrap(stateFile).init_process_pid
                    /\ rows[i].status = (IF PidAlive(rows[i].pid) THEN "Running" ELSE "Stopped")
                    /\ ~all => rows[i].status # "Stopped"
              /\ (IsSome(stateFile) /\ all) => Len(rows) = 1
              /\ (IsSome(stateFile) /\ PidAlive(Unwrap(stateFile).init_process_pid))
                    => Len(rows) = 1
      ]_vars

\* list --all showed the container as Stopped after its init had exited
C36_Witness ==
    /\ cli.last = [cmd |-> "list", res |-> "ok"]
    /\ IsSome(stateFile) /\ ~childAlive /\ ~cli.reused
    /\ listed = Some([all |-> TRUE,
                      rows |-> <<[pid |-> Unwrap(stateFile).init_process_pid,
                                  status |-> "Stopped"]>>])

----------------------------------------------------------------------------
(* The spec without a linux section *)

\* what the coordinator does on the channel, the cgroup, the ID maps and
\* the hooks
CoordinatorOps == {"send", "recv", "apply", "apply_err", "set", "set_err", "hook",
                   "hook_err", "open_wronly", "write", "write_err"}

(* C37: with a spec that has no linux section join_namespaces returns an   *)
(* error at its first step: nothing has been written to the sync channel   *)
(* and no cgroup, ID-map or hook operation has been made, then or later;   *)
(* update_namespaces returns an error and leaves the spec as it was.       *)
C37_NoLinuxIsConfigError ==
    /\ [](IsNone(spec.linux) =>
            /\ \A i \in 1..Len(plog) : plog[i].op \notin CoordinatorOps
            /\ pipe_w = <<>>
            /\ mapFiles = [uid_map |-> None, gid_map |-> None]
            /\ cg.applied = {} /\ IsNone(cg.set)
            /\ ppc = "returned" => (result = "err" /\ failedAt = "begin")
            /\ ppc \in {"updated", "updated_twice"} => result = "err"
            /\ result # "ok")
    /\ [][ IsNone(spec.linux) => spec' = spec ]_vars

\* join_namespaces has returned its error for a spec without linux section
C37_Witness ==
    /\ IsNone(spec.linux)
    /\ ppc = "returned" /\ result = "err" /\ failedAt = "begin"
    /\ plog = <<>> /\ pipe_w = <<>>

----------------------------------------------------------------------------
(* The sandbox scenario *)

\* the spec has been rewritten by update_namespaces (and may since have been
\* handed to the coordinator)
Updated == probe.op = "update" /\ probe.ok /\ ppc # "idle"

(* C38: once update_namespaces has been applied to a spec, every namespace *)
(* entry of a recognized kind has a path that is not empty; for that spec  *)
(* user-namespace-create is reported disabled, the coordinator writes no   *)
(* uid or gid map, and the PID-namespace probe does not report create-new; *)
(* a second update_namespaces, with the same or another pid, changes       *)
(* nothing.                                                                *)
C38_UpdatedSpecJoinsOnly ==
    /\ [](Updated =>
            /\ \A i \in 1..Len(NamespacesOrDefault(Linux)) :
                  NamespacesOrDefault(Linux)[i].typ \in DOMAIN TYPETONAME
                     => /\ IsSome(NamespacesOrDefault(Linux)[i].path)
                        /\ Unwrap(NamespacesOrDefault(Linux)[i].path) # ""
            /\ ~is_userns_enabled(Linux)
            /\ ~userns
            /\ mapFiles = [uid_map |-> None, gid_map |-> None]
            /\ \A i \in 1..Len(plog) : plog[i].op \notin {"open_wronly", "write", "write_err"}
            /\ \A exists \in BOOLEAN :
                  LET r == get_pid_namespace(Linux, exists)
                  IN  ~(r.ok /\ r.enabled /\ IsNone(r.fd)))
    /\ [][ (ppc = "updated" /\ ppc' = "updated_twice") => spec' = spec ]_vars

\* a spec whose user entry had no path was rewritten, updated again and
\* started: the coordinator is past the mapping step and wrote no map
C38_Witness ==
    /\ Updated
    /\ \E i \in 1..Len(probe.ns) : probe.ns[i] = [typ |-> "User", path |-> None]
    /\ IsSome(Linux.uid_mappings)
    /\ ppc = "returned" /\ result = "ok"
    /\ Has(Ev("recv", "userns_ready"))
    /\ mapFiles = [uid_map |-> None, gid_map |-> None]

----------------------------------------------------------------------------
(* Delete and the recorded pid *)

\* no state of the id loads, or the state records a pid that is not positive
NoInitRecorded == IsNone(stateFile) \/ Unwrap(stateFile).init_process_pid <= 0

(* C39: a delete that finds no loadable state, or a state whose            *)
(* init_process_pid is zero or negative, asks for no process and sends no  *)
(* signal: it goes straight to the removal of the bundle and state         *)
(* directories; a SIGKILL is only ever sent for a recorded pid above zero. *)
C39_NoSignalWithoutInitPid ==
    /\ [][ (cli.pc = "idle" /\ cli'.pc # "idle" /\ NoInitRecorded)
             => (cli'.pc = "bundle" /\ plog' = Append(plog, Ev("delete", "begin"))) ]_vars
    /\ [](cli.pc \in {"kill", "sleep"}
             => (IsSome(stateFile) /\ Unwrap(stateFile).init_process_pid > 0))

\* a delete of an id whose state records pid 0 is at the bundle removal
C39_Witness ==
    /\ cli.pc = "bundle"
    /\ stateFile = Some([init_process_pid |-> 0])
    /\ plog[Len(plog)] = Ev("delete", "begin")

----------------------------------------------------------------------------
(* Concurrent deletes *)

\* both delete commands have returned
BothReturned == \A d \in Deleters : racers.pc[d] = "done"

(* C40: when two delete commands of one container id run concurrently, in  *)
(* every interleaving of their existence checks and directory removals     *)
(* both return success, and afterwards neither the bundle directory nor    *)
(* the state directory of the id exists.                                   *)
C40_ConcurrentDeletesSucceed ==
    BothReturned =>
       /\ \A d \in Deleters : racers.res[d] = "ok"
       /\ ~racers.bundle /\ ~racers.state

====
